---- MODULE Spec2Model ----
(***************************************************************************)
(* A model of the nextion client library: the byte-stream framer           *)
(* (nextion/protocol/nextion.py), the reply queue (nextion/protocol/       *)
(* base.py) and the asyncio client (nextion/client.py).                    *)
(*                                                                         *)
(* Bytes are integers 0..255, byte strings are sequences of bytes.         *)
(***************************************************************************)
EXTENDS Integers, Sequences, FiniteSets, TLC

VARIABLES
    fstream,       \* framer harness: bytes the serial transport has not delivered yet
    fconsumed,     \* framer harness: bytes already passed to data_received
    fproto,        \* framer harness: a NextionProtocol (buffer, dropped_buffer, queue)
    fevents,       \* framer harness: frames handed to event_message_handler, in order
    connection,    \* Nextion._connection: 0 (None) or the index of a protocol in conns
    baud_rate,     \* Nextion._baud_rate: 0 (None) or a baud
    device_info,   \* Nextion.device_info: <<>> (None) or the five fields
    sleeping,      \* Nextion._sleeping
    pending_sets,  \* Nextion._pending_sets: a dict, as its (key, value) items in insertion order
    reconnect_attempts, \* Nextion._reconnect_attempts
    lock,          \* Nextion._command_lock: 0 (free) or the task holding it
    waiters,       \* tasks suspended in _command_lock.acquire(), first come first
    tasks,         \* coroutines of the event loop: their call stacks at the await they are suspended at
    startq,        \* tasks made by asyncio.create_task that have not run yet, in creation order
    conns,         \* every protocol/transport pair opened so far
    dev,           \* the display and the serial port: its baud, its sleep state
    written,       \* every transport.write so far: (connection, bytes, task)
    invocations,   \* every call of the user's event_handler so far: (type, payload)
    counters       \* what has happened so far: calls, timeouts, events, rejections

fvars == <<fstream, fconsumed, fproto, fevents>>

cvars ==
    <<connection, baud_rate, device_info, sleeping, pending_sets, reconnect_attempts,
      lock, waiters, tasks, startq, conns, dev, written, invocations, counters>>

vars == <<fvars, cvars>>

----------------------------------------------------------------------------
(* Bounds of the model *)

\* number of pieces concatenated into an input stream of the framer harness
MaxPieces == 3
\* largest chunk the transport passes to one data_received call
MaxChunk == 3

----------------------------------------------------------------------------
(* Byte-string helpers (Python bytes semantics) *)

\* s[n:]
Drop(s, n) == SubSeq(s, n + 1, Len(s))

\* s[:n]
Take(s, n) == SubSeq(s, 1, IF n < Len(s) THEN n ELSE Len(s))

\* bytes.endswith
EndsWith(s, suffix) ==
    /\ Len(s) >= Len(suffix)
    /\ SubSeq(s, Len(s) - Len(suffix) + 1, Len(s)) = suffix

\* bytes.find: index (1-based) of the first occurrence of sub in s, 0 if none
Find(s, sub) ==
    LET hits == {i \in 1..(Len(s) - Len(sub) + 1) : SubSeq(s, i, i + Len(sub) - 1) = sub}
    IN  IF hits = {} THEN 0 ELSE CHOOSE i \in hits : \A j \in hits : i <= j

----------------------------------------------------------------------------
(* nextion/protocol/nextion.py *)

\* EventType
TOUCH == 101
TOUCH_COORDINATE == 103
TOUCH_IN_SLEEP == 104
AUTO_SLEEP == 134
AUTO_WAKE == 135
STARTUP == 136
SD_CARD_UPGRADE == 137

EventType ==
    {TOUCH, TOUCH_COORDINATE, TOUCH_IN_SLEEP, AUTO_SLEEP, AUTO_WAKE, STARTUP,
     SD_CARD_UPGRADE}

\* ResponseType
\* (STRING is a TLA+ keyword, hence the prefix)
RT_STRING == 112
RT_NUMBER == 113
RT_PAGE == 102

EOL == <<255, 255, 255>>

PACKET_LENGTH_MAP ==
    (0 :> 6) @@ (36 :> 4) @@ (101 :> 7) @@ (102 :> 5) @@ (103 :> 9) @@
    (104 :> 9) @@ (113 :> 8) @@ (134 :> 4) @@ (135 :> 4) @@ (136 :> 4) @@
    (137 :> 4) @@ (253 :> 4) @@ (254 :> 4)

is_event(message) == Len(message) > 0 /\ message[1] \in EventType

\* The result of one extraction: found = FALSE is Python's None.
NoPacket(buffer, dropped) ==
    [found |-> FALSE, message |-> <<>>, buffer |-> buffer, dropped |-> dropped]

\* buffer.partition(EOL): the message before the first EOL and the leftover
extract_varied_length_packet(buffer, dropped) ==
    LET i == Find(buffer, EOL)
    IN  IF i = 0
        THEN NoPacket(buffer, dropped)
        ELSE [found |-> TRUE, message |-> Take(buffer, i - 1),
              buffer |-> Drop(buffer, i + 2), dropped |-> dropped]

RECURSIVE extract_packet(_, _)
RECURSIVE extract_fixed_length_packet(_, _, _)

\* A plausible slip: a short buffer is cut at the first terminator instead of
\* waiting for the declared length.
extract_fixed_length_packet_nowait(buffer, dropped, expected_packet_length) ==
    IF Len(buffer) < expected_packet_length
    THEN extract_varied_length_packet(buffer, dropped)
    ELSE LET full_message == Take(buffer, expected_packet_length)
         IN  IF ~EndsWith(full_message, EOL)
             THEN LET v == extract_varied_length_packet(buffer, dropped)
                  IN  IF ~v.found
                      THEN NoPacket(buffer, dropped)
                      ELSE extract_packet(v.buffer, dropped \o v.message \o EOL)
             ELSE [found |-> TRUE, message |-> Take(full_message, expected_packet_length - 3),
                   buffer |-> Drop(buffer, expected_packet_length), dropped |-> dropped]

\* a mutant of extract_fixed_length_packet: the bytes before the first
\* terminator of a malformed fixed-length frame are returned as a frame
extract_fixed_length_packet_keepjunk(buffer, dropped, expected_packet_length) ==
    IF Len(buffer) < expected_packet_length
    THEN NoPacket(buffer, dropped)
    ELSE LET full_message == Take(buffer, expected_packet_length)
         IN  IF ~EndsWith(full_message, EOL)
             THEN extract_varied_length_packet(buffer, dropped)
             ELSE [found |-> TRUE, message |-> Take(full_message, expected_packet_length - 3),
                   buffer |-> Drop(buffer, expected_packet_length), dropped |-> dropped]

extract_fixed_length_packet(buffer, dropped, expected_packet_length) ==
    IF Len(buffer) < expected_packet_length
    THEN NoPacket(buffer, dropped)
    ELSE LET full_message == Take(buffer, expected_packet_length)
         IN  IF ~EndsWith(full_message, EOL)
             THEN LET v == extract_varied_length_packet(buffer, dropped)
                  IN  IF ~v.found
                      THEN NoPacket(buffer, dropped)
                      ELSE extract_packet(v.buffer, dropped \o v.message \o EOL)
             ELSE [found |-> TRUE, message |-> Take(full_message, expected_packet_length - 3),
                   buffer |-> Drop(buffer, expected_packet_length), dropped |-> dropped]

extract_packet(buffer, dropped) ==
    IF Len(buffer) < 3
    THEN NoPacket(buffer, dropped)
    ELSE IF buffer[1] \notin DOMAIN PACKET_LENGTH_MAP
         THEN extract_varied_length_packet(buffer, dropped)
         ELSE extract_fixed_length_packet(buffer, dropped, PACKET_LENGTH_MAP[buffer[1]])

\* the while-loop of data_received: every frame extracted from the buffer, in
\* order; dropped_buffer is reset at each accepted frame
RECURSIVE extract_all(_, _, _)
extract_all(buffer, dropped, messages) ==
    LET r == extract_packet(buffer, dropped)
    IN  IF ~r.found
        THEN [buffer |-> r.buffer, dropped |-> r.dropped, messages |-> messages]
        ELSE extract_all(r.buffer, <<>>, Append(messages, r.message))

\* A protocol object: the accumulation buffer, the diagnostic dropped buffer and
\* the reply queue of BasicProtocol.
NewProtocol == [buffer |-> <<>>, dropped_buffer |-> <<>>, queue |-> <<>>]

\* mutant of data_received: an event frame is handed to the handler and put on
\* the reply queue as well
data_received_and_queued(p, data) ==
    LET r == extract_all(p.buffer \o data, p.dropped_buffer, <<>>)
    IN  [proto |-> [buffer |-> r.buffer,
                    dropped_buffer |-> r.dropped,
                    queue |-> p.queue \o r.messages],
         events |-> SelectSeq(r.messages, is_event)]

\* data_received(data): the new protocol state and, in arrival order, the
\* frames handed to event_message_handler
data_received(p, data) ==
    LET r == extract_all(p.buffer \o data, p.dropped_buffer, <<>>)
    IN  [proto |-> [buffer |-> r.buffer,
                    dropped_buffer |-> r.dropped,
                    queue |-> p.queue \o SelectSeq(r.messages, LAMBDA m : ~is_event(m))],
         events |-> SelectSeq(r.messages, is_event)]

----------------------------------------------------------------------------
(* Python values, text and exceptions *)

\* Text (str) is a sequence of code points, bytes a sequence of 0..255.
None == [t |-> "none", v |-> <<>>]

PyBool(b) == [t |-> "bool", v |-> <<IF b THEN 1 ELSE 0>>]

PyInt(n) == [t |-> "int", v |-> <<n>>]

PyStr(s) == [t |-> "str", v |-> s]

\* the float i.f, f one decimal digit (5.5 is PyFloat(5, 5))
PyFloat(i, f) == [t |-> "float", v |-> <<i, f>>]

\* bool(value)
Truthy(value) ==
    CASE value.t = "none" -> FALSE
      [] value.t = "bool" -> value.v[1] = 1
      [] value.t = "int" -> value.v[1] # 0
      [] value.t = "float" -> value.v # <<0, 0>>
      [] OTHER -> Len(value.v) > 0

RECURSIVE Digits(_)
Digits(n) == IF n < 10 THEN <<48 + n>> ELSE Digits(n \div 10) \o <<48 + (n % 10)>>

\* str(n) of an int
str_int(n) == IF n < 0 THEN <<45>> \o Digits(-n) ELSE Digits(n)

\* set(): the text put after "key=" for a value
out_value(value) ==
    CASE value.t = "str" -> <<34>> \o value.v \o <<34>>
      [] value.t = "float" ->
            <<34>> \o str_int(value.v[1]) \o <<46>> \o Digits(value.v[2]) \o <<34>>
      [] value.t = "int" -> str_int(value.v[1])

\* a mutant of out_value: text is sent bare, without the quotes
out_value_unquoted(value) ==
    CASE value.t = "str" -> value.v
      [] value.t = "float" -> str_int(value.v[1]) \o <<46>> \o Digits(value.v[2])
      [] value.t = "int" -> str_int(value.v[1])

\* command.partition(" ")[0]
FirstWord(text) ==
    LET i == Find(text, <<32>>) IN IF i = 0 THEN text ELSE Take(text, i - 1)

StrGet == <<103, 101, 116>>
StrSendme == <<115, 101, 110, 100, 109, 101>>
StrSleep == <<115, 108, 101, 101, 112>>
StrBkcmd3 == <<98, 107, 99, 109, 100, 61, 51>>
StrGetSleep == <<103, 101, 116, 32>> \o StrSleep
StrConnect == <<99, 111, 110, 110, 101, 99, 116>>
StrComok == <<99, 111, 109, 111, 107, 32>>
StrDrak ==
    <<68, 82, 65, 75, 74, 72, 83, 85, 89, 68, 71, 66, 78, 67, 74, 72, 71, 74, 75,
      83, 72, 66, 68, 78>>

\* text.encode("ascii") succeeds on code points below 128, which it keeps
IsAscii(text) == \A i \in 1..Len(text) : text[i] < 128

\* a mutant of unpack_i: the four bytes are read most significant first
unpack_i_be(raw) ==
    raw[4] + 256 * raw[3] + 65536 * raw[2]
        + 16777216 * (IF raw[1] >= 128 THEN raw[1] - 256 ELSE raw[1])

\* struct.unpack("i", raw): four bytes, little-endian, two's complement (the
\* top byte carries the sign; written so that no intermediate value leaves the
\* 32-bit range)
unpack_i(raw) ==
    raw[1] + 256 * raw[2] + 65536 * raw[3]
        + 16777216 * (IF raw[4] >= 128 THEN raw[4] - 256 ELSE raw[4])

\* nextion/exceptions.py
command_failed_codes ==
    (0 :> "Invalid instruction") @@ (2 :> "Component ID invalid") @@
    (3 :> "Page ID invalid") @@ (4 :> "Picture ID invalid") @@
    (5 :> "Font ID invalid") @@ (17 :> "Baud rate setting invalid") @@
    (18 :> "Curve control ID number or channel number is invalid") @@
    (26 :> "Variable name invalid") @@ (27 :> "Variable operation invalid") @@
    (28 :> "Failed to assign") @@ (29 :> "Operate EEPROM failed") @@
    (30 :> "Parameter quantity invalid") @@ (31 :> "IO operation failed") @@
    (32 :> "Undefined escape characters") @@ (35 :> "Too long variable name")

\* An exception: its class, the command it is about, its message.
Exc(type, cmd, msg) == [type |-> type, cmd |-> cmd, msg |-> msg]

CommandFailed(command, code) ==
    Exc("CommandFailed", command,
        IF code \in DOMAIN command_failed_codes
        THEN command_failed_codes[code]
        ELSE "Unknown response code")

CommandTimeout(command) == Exc("CommandTimeout", command, "response was not received")

\* The classes an "except ConnectionFailed" clause catches.
IsConnectionFailed(e) == e.type \in {"ConnectionFailed", "UnsupportedBaudRate", "NoValidReply"}

\* How a call ended: a returned value or a raised exception; att is the number
\* of attempts the call's own _command had left at that moment.
Returned(value) == [kind |-> "return", value |-> value, exc |-> Exc("", <<>>, ""), att |-> 0]

Raised(e, att) == [kind |-> "raise", value |-> None, exc |-> e, att |-> att]

NoOutcome == [kind |-> "", value |-> None, exc |-> Exc("", <<>>, ""), att |-> 0]

----------------------------------------------------------------------------
(* Framer harness: a byte stream cut into arbitrary chunks *)

NumberMinus91 == <<113, 165, 255, 255, 255, 255, 255, 255>>
NumberOne == <<113, 1, 0, 0, 0, 255, 255, 255>>
StatusOk == <<1, 255, 255, 255>>
EmptyFrame == <<255, 255, 255>>
String40 == <<112, 52, 48, 255, 255, 255>>
TouchFrame == <<101, 1, 3, 1, 255, 255, 255>>
AutoSleepFrame == <<134, 255, 255, 255>>
JunkNumber == <<113, 255, 255, 255>>
StatusInvalid == <<0, 255, 255, 255>>

Pieces ==
    {NumberMinus91, NumberOne, StatusOk, EmptyFrame, String40, TouchFrame,
     AutoSleepFrame, JunkNumber, StatusInvalid, <<255>>, <<113>>, <<101, 1>>}

RECURSIVE Streams(_)
Streams(n) ==
    IF n = 0 THEN {<<>>}
    ELSE LET shorter == Streams(n - 1)
         IN  shorter \cup {s \o p : s \in shorter, p \in Pieces}

\* The state of a client nobody uses (the framer harness leaves it alone).
ClientIdle ==
    /\ connection = 0
    /\ baud_rate = 0
    /\ device_info = <<>>
    /\ sleeping = TRUE
    /\ pending_sets = <<>>
    /\ reconnect_attempts = 3
    /\ lock = 0
    /\ waiters = <<>>
    /\ tasks = <<>>
    /\ startq = <<>>
    /\ conns = <<>>
    /\ dev = <<>>
    /\ written = <<>>
    /\ invocations = <<>>
    /\ counters = <<>>

FramerInit ==
    /\ ClientIdle
    /\ fstream \in Streams(MaxPieces)
    /\ fconsumed = <<>>
    /\ fproto = NewProtocol
    /\ fevents = <<>>

\* The transport delivers the next n bytes in one data_received call.
FramerReceive(n) ==
    /\ n <= Len(fstream)
    /\ LET r == data_received(fproto, Take(fstream, n))
       IN  /\ fproto' = r.proto
           /\ fevents' = fevents \o r.events
    /\ fconsumed' = fconsumed \o Take(fstream, n)
    /\ fstream' = Drop(fstream, n)
    /\ UNCHANGED cvars

FramerNext == \E n \in 1..MaxChunk : FramerReceive(n)

SpecFramer == FramerInit /\ [][FramerNext]_vars

----------------------------------------------------------------------------
(* C1: however the bytes received so far were split into data_received calls, *)
(* the reply queue, the frames handed to the event callback and the remaining *)
(* accumulation buffer are those of a single call with all the bytes, so any  *)
(* two splittings of the same stream agree.                                   *)
C1_ChunkInvariance ==
    LET whole == data_received(NewProtocol, fconsumed)
    IN  /\ fproto.queue = whole.proto.queue
        /\ fevents = whole.events
        /\ fproto.buffer = whole.proto.buffer

\* a Number frame whose payload holds terminator-like bytes arrived in several
\* chunks and was delivered whole
C1_Witness ==
    /\ fconsumed = NumberMinus91 \o StatusOk
    /\ fproto.queue = <<Take(NumberMinus91, 5), <<1>>>>
    /\ fproto.buffer = <<>>

----------------------------------------------------------------------------
(* The display at the other end of the serial line *)

\* int -> four bytes, little-endian, two's complement (\div rounds down)
pack_i(n) ==
    <<n % 256, (n \div 256) % 256, (n \div 65536) % 256, (n \div 16777216) % 256>>

NumberFrame(n) == <<RT_NUMBER>> \o pack_i(n) \o EOL

\* "comok 1,a,m,f,u,s,z": touch flag, address, model, firmware, mcu, serial, flash
ComokReply ==
    StrComok \o <<49, 44, 97, 44, 109, 44, 102, 44, 117, 44, 115, 44, 122>> \o EOL

AutoWakeFrame == <<AUTO_WAKE>> \o EOL
StartupFrame == <<STARTUP>> \o EOL

\* What a reply choice of the display is: answer, stay silent, answer the way
\* old firmware does (data frame, then a status frame), or reject with a code.
Answer(k, code) == [k |-> k, code |-> code]

\* The text the display keeps for a variable, <<>> when it was never set.
RECURSIVE StoreGet(_, _)
StoreGet(store, key) ==
    IF store = <<>> THEN <<>>
    ELSE IF Head(store)[1] = key THEN Head(store)[2]
    ELSE StoreGet(Tail(store), key)

RECURSIVE StorePut(_, _, _)
StorePut(store, key, text) ==
    IF store = <<>> THEN << <<key, text>> >>
    ELSE IF Head(store)[1] = key THEN << <<key, text>> >> \o Tail(store)
    ELSE <<Head(store)>> \o StorePut(Tail(store), key, text)

\* The number a run of decimal digits stands for.
RECURSIVE ParseDigits(_)
ParseDigits(text) ==
    IF text = <<>> THEN 0
    ELSE 10 * ParseDigits(Take(text, Len(text) - 1)) + (text[Len(text)] - 48)

ParseInt(text) == IF Head(text) = 45 THEN 0 - ParseDigits(Tail(text)) ELSE ParseDigits(text)

PageFrame(n) == <<RT_PAGE, n>> \o EOL
StringFrame(text) == <<RT_STRING>> \o text \o EOL

\* The data frame the display answers a get or a sendme with, and the value
\* the frame stands for: the sleep state, the page shown, what was assigned
\* to the variable, or what the reply choice says the variable holds.
DeviceData(d, payload, choice) ==
    LET text == StoreGet(d.store, Drop(payload, 4))
    IN  CASE payload = StrGetSleep -> [frame |-> NumberFrame(d.sleep), value |-> PyInt(d.sleep)]
          [] payload = StrSendme -> [frame |-> PageFrame(2), value |-> PyInt(2)]
          [] text # <<>> /\ Head(text) = 34 ->
                LET inner == SubSeq(text, 2, Len(text) - 1)
                IN  [frame |-> StringFrame(inner), value |-> PyStr(inner)]
          [] text # <<>> ->
                [frame |-> NumberFrame(ParseInt(text)), value |-> PyInt(ParseInt(text))]
          [] choice.k = "str" -> [frame |-> String40, value |-> PyStr(<<52, 48>>)]
          [] choice.k \in {"num", "num4", "num5"} ->
                [frame |-> NumberFrame(choice.code), value |-> PyInt(choice.code)]
          [] OTHER -> [frame |-> NumberMinus91, value |-> PyInt(0 - 91)]

\* A frame of more than one byte whose tag is neither an event nor Page,
\* String or Number.
UnknownFrame == <<114, 1>> \o EOL

\* The text of a String frame the display sends: none, or "40".
ReplyText(code) == IF code = 0 THEN <<>> ELSE <<52, 48>>

\* The display's reaction to the bytes of one write: its new state, the
\* chunks it sends back, and the value of the data frame among them (None
\* when there is none).  An assignment key=text is kept for a later get.
DeviceReaction(d, wire, choice) ==
    LET payload == IF EndsWith(wire, EOL) THEN Take(wire, Len(wire) - 3) ELSE wire
        isget == Take(payload, 4) = <<103, 101, 116, 32>> \/ payload = StrSendme
        eq == Find(payload, <<61>>)
        d1 == IF payload = StrSleep \o <<61, 48>> THEN [d EXCEPT !.sleep = 0]
              ELSE IF payload = StrSleep \o <<61, 49>> THEN [d EXCEPT !.sleep = 1]
              ELSE IF eq > 1 /\ payload # StrBkcmd3
              THEN [d EXCEPT !.store = StorePut(@, Take(payload, eq - 1), Drop(payload, eq))]
              ELSE d
        data == DeviceData(d, payload, choice)
        cut == IF choice.k = "num4" THEN 4 ELSE 5
    IN  CASE choice.k = "fail" ->
                [dev |-> d, chunks |-> <<(<<choice.code>> \o EOL)>>, value |-> None]
          [] choice.k = "silent" -> [dev |-> d1, chunks |-> <<>>, value |-> None]
          [] payload = StrDrak -> [dev |-> d, chunks |-> <<(<<26>> \o EOL)>>, value |-> None]
          [] Take(payload, 9) = <<119, 104, 109, 105, 45, 119, 114, 105, 32>> ->
                [dev |-> d, chunks |-> << <<5>> >>, value |-> None]
          [] payload \in {StrConnect, <<255, 255>> \o StrConnect} ->
                [dev |-> d, chunks |-> <<ComokReply>>, value |-> None]
          [] choice.k = "unk" ->
                [dev |-> d1, chunks |-> <<UnknownFrame, IF isget THEN data.frame ELSE StatusOk>>,
                 value |-> IF isget THEN data.value ELSE None]
          [] choice.k = "numok" ->
                [dev |-> d1, chunks |-> <<NumberFrame(choice.code), StatusOk>>,
                 value |-> PyInt(choice.code)]
          [] choice.k = "numempty" ->
                [dev |-> d1, chunks |-> <<NumberFrame(choice.code), EmptyFrame>>,
                 value |-> PyInt(choice.code)]
          [] choice.k = "strok" ->
                [dev |-> d1, chunks |-> <<StringFrame(ReplyText(choice.code)), StatusOk>>,
                 value |-> PyStr(ReplyText(choice.code))]
          [] isget /\ choice.k = "old" ->
                [dev |-> d, chunks |-> <<data.frame, StatusOk>>, value |-> data.value]
          [] isget /\ choice.k = "oldempty" ->
                [dev |-> d, chunks |-> <<data.frame, EmptyFrame>>, value |-> data.value]
          [] isget /\ choice.k \in {"num4", "num5"} ->
                [dev |-> d, chunks |-> <<Take(data.frame, cut), Drop(data.frame, cut)>>,
                 value |-> data.value]
          [] isget -> [dev |-> d, chunks |-> <<data.frame>>, value |-> data.value]
          [] OTHER -> [dev |-> d1, chunks |-> <<StatusOk>>, value |-> None]

----------------------------------------------------------------------------
(* nextion/client.py as a state transformer: st is the record of the client *)
(* variables, t a task                                                      *)

\* number of coroutines the application runs (tasks 1..NumUsers)
NumUsers == 2

\* attempts=None
NoneAtt == 0 - 1

\* constants.py (not part of the sources at hand)
BAUD_RATES == <<2400, 4800, 9600, 19200, 38400, 57600, 115200, 230400>>

Cur ==
    [connection |-> connection, baud_rate |-> baud_rate, device_info |-> device_info,
     sleeping |-> sleeping, pending_sets |-> pending_sets,
     reconnect_attempts |-> reconnect_attempts, lock |-> lock, waiters |-> waiters,
     tasks |-> tasks, startq |-> startq, conns |-> conns, dev |-> dev,
     written |-> written, invocations |-> invocations, counters |-> counters]

Install(st) ==
    /\ connection' = st.connection
    /\ baud_rate' = st.baud_rate
    /\ device_info' = st.device_info
    /\ sleeping' = st.sleeping
    /\ pending_sets' = st.pending_sets
    /\ reconnect_attempts' = st.reconnect_attempts
    /\ lock' = st.lock
    /\ waiters' = st.waiters
    /\ tasks' = st.tasks
    /\ startq' = st.startq
    /\ conns' = st.conns
    /\ dev' = st.dev
    /\ written' = st.written
    /\ invocations' = st.invocations
    /\ counters' = st.counters

\* One frame of a task's call stack, suspended at await pc.
Frame0 ==
    [fn |-> "", pc |-> "", cmd |-> <<>>, att |-> 0, last |-> "None", result |-> None,
     data |-> None, conn |-> 0, role |-> "", bauds |-> <<>>, msg |-> 0, ninfo |-> 0]

\* command(): waiting for the lock ("acquire") or holding it ("held")
OpFrame(pc, cmd, att) == [Frame0 EXCEPT !.fn = "command", !.pc = pc, !.cmd = cmd, !.att = att]

\* _command(): role tells who called it (command(), or connect() for bkcmd=3
\* and for get sleep)
CmdFrame(cmd, att, role) == [Frame0 EXCEPT !.fn = "_command", !.cmd = cmd, !.att = att, !.role = role]

\* connect(), or reconnect() awaiting close() and then in connect()
ConnFrame(pc, conn) == [Frame0 EXCEPT !.fn = "connect", !.pc = pc, !.conn = conn]

Stk(st, t) == st.tasks[t].stk

Top(st, t) == Stk(st, t)[Len(Stk(st, t))]

WithTop(st, t, f) ==
    LET s == Stk(st, t) IN [st EXCEPT !.tasks[t].stk = [s EXCEPT ![Len(s)] = f]]

Push(st, t, f) == [st EXCEPT !.tasks[t].stk = Append(@, f)]

Pop(st, t) == LET s == Stk(st, t) IN [st EXCEPT !.tasks[t].stk = Take(s, Len(s) - 1)]

\* A task's coroutine ended.  The application's tasks keep the outcome for
\* their caller; a task made by create_task is dropped by the loop.
Finish(st, t, outcome) ==
    IF t <= NumUsers
    THEN [st EXCEPT !.tasks[t].stk = <<>>, !.tasks[t].out = outcome]
    ELSE [st EXCEPT !.tasks = [u \in (DOMAIN st.tasks) \ {t} |-> st.tasks[u]]]

\* A call of a coroutine with its arguments; by tells who made it: the
\* application, wakeup() or the handling of an event.
Call0(name) ==
    [name |-> name, key |-> <<>>, value |-> None, cmd |-> <<>>, att |-> NoneAtt, by |-> "app"]

\* A task: the coroutine it runs, its stack of suspended frames, how it ended,
\* and what its own _command did so far: writes of the command (nw), reads that
\* timed out (nto), reconnects (nrc), the connections it wrote the command on
\* (wc), the first data frame's value it decoded (first), and the bauds its
\* connect() tried to open (opens).
NewTask(call) ==
    [call |-> call, stk |-> <<>>, out |-> NoOutcome, nw |-> 0, nto |-> 0, nrc |-> 0,
     wc |-> <<>>, first |-> None, opens |-> <<>>]

\* a mutant of Spawn: the new task is run before the tasks made earlier
SpawnFirst(st, call) ==
    LET id == NumUsers + st.counters.nspawn + 1
    IN  [st EXCEPT !.tasks = (id :> NewTask(call)) @@ @,
                   !.startq = <<id>> \o @,
                   !.counters.nspawn = @ + 1]

\* asyncio.create_task(coro)
Spawn(st, call) ==
    LET id == NumUsers + st.counters.nspawn + 1
    IN  [st EXCEPT !.tasks = (id :> NewTask(call)) @@ @,
                   !.startq = Append(@, id),
                   !.counters.nspawn = @ + 1]

\* NextionProtocol.write through _write_command_raw: data and the terminator go
\* to the transport; the display sees them if the line is open at its baud.
Write(st, t, data) ==
    LET c == st.connection
        wire == data \o EOL
        seen == st.conns[c].open /\ st.conns[c].baud = st.dev.baud
    IN  [st EXCEPT !.written = Append(@, [conn |-> c, data |-> wire, task |-> t]),
                   !.conns[c].outbox = IF seen THEN Append(@, wire) ELSE @]

\* a mutant of flush_read_buffer: the stale frames are left in the queue
flush_read_buffer_skip(st) == st

\* _flush_read_buffer; the number of frames thrown away is counted
flush_read_buffer(st) ==
    [st EXCEPT !.conns[st.connection].proto.queue = <<>>,
               !.counters.flushed = @ + Len(st.conns[st.connection].proto.queue)]

\* a mutant of get_priority_ordered_baud_rates: the known baud is put first
\* and left in its place on the ladder as well
get_priority_ordered_baud_rates_dup(known) ==
    IF known # 0 THEN <<known>> \o BAUD_RATES ELSE BAUD_RATES

\* _get_priority_ordered_baud_rates
get_priority_ordered_baud_rates(known) ==
    IF known # 0
    THEN <<known>> \o SelectSeq(BAUD_RATES, LAMBDA b : b # known)
    ELSE BAUD_RATES

\* dict[key] = value
DictSet(items, key, value) ==
    IF \E i \in 1..Len(items) : items[i][1] = key
    THEN [i \in 1..Len(items) |-> IF items[i][1] = key THEN <<key, value>> ELSE items[i]]
    ELSE Append(items, <<key, value>>)

\* mutant of DictSet: the first value stored for a key is kept
DictSetFirstWins(items, key, value) ==
    IF \E i \in 1..Len(items) : items[i][1] = key
    THEN items
    ELSE Append(items, <<key, value>>)

\* str.split(",")
RECURSIVE Split(_)
Split(text) ==
    LET i == Find(text, <<44>>)
    IN  IF i = 0 THEN <<text>> ELSE <<Take(text, i - 1)>> \o Split(Drop(text, i))

\* _on_wakeup: one task per deferred set, in dict order; the dict is replaced
\* by an empty one and the flag cleared
RECURSIVE SpawnSets(_, _, _)
SpawnSets(st, items, by) ==
    IF items = <<>> THEN st
    ELSE SpawnSets(Spawn(st, [Call0("set") EXCEPT !.key = items[1][1], !.value = items[1][2],
                                                  !.by = by]),
                   Tail(items), by)

\* mutant of on_wakeup: the deferred sets are forgotten
on_wakeup_drop(st, by) == [st EXCEPT !.pending_sets = <<>>, !.sleeping = FALSE]

on_wakeup(st, by) ==
    [SpawnSets(st, st.pending_sets, by) EXCEPT !.pending_sets = <<>>, !.sleeping = FALSE]

\* _handle_event followed by _schedule_event_message_handler
Handler(type, payload) ==
    [Call0("handler") EXCEPT !.key = <<type>>, !.cmd = payload, !.by = "event"]

\* a mutant of handle_event: AutoWake calls the handler only, _on_wakeup is
\* not run
handle_event_nowake(st, message) ==
    LET typ == message[1]
    IN  IF typ = AUTO_SLEEP THEN Spawn([st EXCEPT !.sleeping = TRUE], Handler(typ, <<>>))
        ELSE Spawn(st, Handler(typ, Tail(message)))

handle_event(st, message) ==
    LET typ == message[1]
        raw == Tail(message)
    IN  CASE typ = TOUCH /\ Len(raw) = 3 -> Spawn(st, Handler(typ, raw))
          [] typ \in {TOUCH_COORDINATE, TOUCH_IN_SLEEP} /\ Len(raw) = 5 ->
                Spawn(st, Handler(typ, <<raw[1] + 256 * raw[2], raw[3] + 256 * raw[4], raw[5]>>))
          [] typ = AUTO_SLEEP -> Spawn([st EXCEPT !.sleeping = TRUE], Handler(typ, <<>>))
          [] typ = AUTO_WAKE ->
                Spawn(Spawn(st, [Call0("_on_wakeup") EXCEPT !.by = "event"]), Handler(typ, <<>>))
          [] typ = STARTUP ->
                Spawn(Spawn(st, [Call0("_on_startup") EXCEPT !.by = "event"]), Handler(typ, <<>>))
          [] typ = SD_CARD_UPGRADE -> Spawn(st, Handler(typ, <<>>))
          [] OTHER -> st

RECURSIVE HandleEvents(_, _)
HandleEvents(st, events) ==
    IF events = <<>> THEN st
    ELSE HandleEvents(handle_event(st, Head(events)), Tail(events))

\* the transport calls data_received(data) on protocol c
Deliver(st, c, data) ==
    LET r == data_received(st.conns[c].proto, data)
    IN  HandleEvents([st EXCEPT !.conns[c].proto = r.proto], r.events)


RECURSIVE Raise(_, _, _)
RECURSIVE Return(_, _, _)
RECURSIVE CommandLoop(_, _)

\* _command, lines 315-325: flush the reply queue, write the command, start
\* reading on the current connection
AttemptWrite(st, t) ==
    LET F == Top(st, t)
    IN  IF st.connection = 0
        THEN Raise(st, t, Exc("AttributeError", F.cmd, "NoneType"))
        ELSE IF ~IsAscii(F.cmd)
        THEN Raise(flush_read_buffer(st), t, Exc("UnicodeEncodeError", F.cmd, "ascii"))
        ELSE LET st1 == Write(flush_read_buffer(st), t, F.cmd)
                 st2 == IF F.role = "user"
                        THEN [st1 EXCEPT !.tasks[t].nw = @ + 1,
                                         !.tasks[t].wc = Append(@, st.connection)]
                        ELSE st1
             IN  WithTop(st2, t, [F EXCEPT !.pc = "read", !.result = None, !.data = None,
                                           !.conn = st.connection])

\* _try_connect_on_different_baudrates: the next candidate of the for loop, or
\* its else clause
TryNextBaud(st, t) ==
    LET F == Top(st, t)
    IN  IF F.bauds = <<>>
        THEN Raise(st, t, Exc("ConnectionFailed", <<>>, "No baud rate suited"))
        ELSE WithTop(st, t, [F EXCEPT !.pc = "open"])

\* connect(): up to the first await
Connect(st, t) ==
    TryNextBaud(WithTop(st, t, [Top(st, t) EXCEPT
                                   !.bauds = get_priority_ordered_baud_rates(st.baud_rate)]), t)

\* reconnect(): close() of the current protocol, then connect()
Reconnect(st, t) ==
    LET c == st.connection
        st1 == Push(st, t, ConnFrame("close", c))
    IN  IF c = 0
        THEN Raise(st1, t, Exc("AttributeError", <<>>, "NoneType"))
        ELSE IF st.conns[c].open
        THEN [st1 EXCEPT !.conns[c].open = FALSE, !.conns[c].outbox = <<>>,
                         !.conns[c].inflight = <<>>]
        ELSE Connect(st1, t)

StartCommand(st, t, cmd, att, role) ==
    CommandLoop(Push(st, t, CmdFrame(cmd, IF att = NoneAtt THEN st.reconnect_attempts ELSE att,
                                     role)), t)

\* a mutant of CommandLoop: after a timeout the command is written again on
\* the connection at hand
CommandLoopNoReconnect(st, t) ==
    LET F == Top(st, t)
    IN  IF F.att > 0
        THEN AttemptWrite(WithTop(st, t, [F EXCEPT !.att = @ - 1, !.pc = "reconnect",
                                                   !.last = "None"]), t)
        ELSE IF F.last # "None"
        THEN Raise(st, t, CommandTimeout(F.cmd))
        ELSE Return(st, t, None)

\* _command, lines 303-313 and 365-368: the head of the while loop
CommandLoop(st, t) ==
    LET F == Top(st, t)
    IN  IF F.att > 0
        THEN LET st1 == WithTop(st, t, [F EXCEPT !.att = @ - 1, !.pc = "reconnect"])
             IN  IF F.last = "CommandTimeout"
                 THEN Reconnect([st1 EXCEPT !.tasks[t].nrc = @ + 1], t)
                 ELSE AttemptWrite(st1, t)
        ELSE IF F.last # "None"
        THEN Raise(st, t, CommandTimeout(F.cmd))
        ELSE Return(st, t, None)

\* mutant of CommandLoop: a timed-out attempt does not count
CommandLoopFreeRetry(st, t) ==
    LET F == Top(st, t)
    IN  IF F.att > 0
        THEN IF F.last = "CommandTimeout"
             THEN Reconnect([WithTop(st, t, [F EXCEPT !.pc = "reconnect"])
                                EXCEPT !.tasks[t].nrc = @ + 1], t)
             ELSE AttemptWrite(WithTop(st, t, [F EXCEPT !.att = @ - 1, !.pc = "reconnect"]), t)
        ELSE IF F.last # "None"
        THEN Raise(st, t, CommandTimeout(F.cmd))
        ELSE Return(st, t, None)

RECURSIVE UploadAfterSet(_, _, _)

\* command() leaves "async with self._command_lock", then the caller of
\* command() goes on: set() and get() pass the outcome up, sleep() sets the
\* flag, wakeup() runs _on_wakeup
AfterCommand(st, t, outcome) ==
    LET st1 == [Pop(st, t) EXCEPT !.lock = 0]
        name == st.tasks[t].call.name
    IN  IF name = "upload_firmware"
        THEN UploadAfterSet(st1, t, outcome)
        ELSE IF outcome.kind = "return" /\ name = "sleep"
        THEN Finish([st1 EXCEPT !.sleeping = TRUE], t, Returned(None))
        ELSE IF outcome.kind = "return" /\ name = "wakeup"
        THEN Finish(on_wakeup(st1, "wakeup"), t, Returned(None))
        ELSE Finish(st1, t, outcome)

\* connect() or reconnect() returned to its caller: the application, or the
\* retry of _command (line 309)
ConnectReturn(st, t) ==
    LET st1 == Pop(st, t)
    IN  IF Stk(st1, t) = <<>>
        THEN Finish(st1, t, Returned(None))
        ELSE AttemptWrite(WithTop(st1, t, [Top(st1, t) EXCEPT !.last = "None"]), t)

\* an exception leaves connect() or reconnect(): to the application, or to the
\* try of _command (lines 306-313)
ConnectRaise(st, t, e) ==
    LET st1 == Pop(st, t)
    IN  IF Stk(st1, t) = <<>>
        THEN Finish(st1, t, Raised(e, 0))
        ELSE IF IsConnectionFailed(e)
        THEN WithTop(st1, t, [Top(st1, t) EXCEPT !.pc = "reconn_sleep"])
        ELSE Raise(st1, t, e)

\* mutant of ConnectRaise: the retry of _command swallows every exception of
\* reconnect()
ConnectRaiseCatchAll(st, t, e) ==
    LET st1 == Pop(st, t)
    IN  IF Stk(st1, t) = <<>>
        THEN Finish(st1, t, Raised(e, 0))
        ELSE WithTop(st1, t, [Top(st1, t) EXCEPT !.pc = "reconn_sleep"])

\* the top frame returns value
Return(st, t, value) ==
    LET F == Top(st, t)
    IN  CASE F.fn = "_command" /\ F.role = "user" ->
                AfterCommand(Pop(st, t), t, Returned(value))
          [] F.fn = "_command" /\ F.role = "bkcmd" ->
                StartCommand(Pop(st, t), t, StrGetSleep, NoneAtt, "getsleep")
          [] F.fn = "_command" /\ F.role = "getsleep" ->
                ConnectReturn([Pop(st, t) EXCEPT !.sleeping = Truthy(value)], t)
          [] OTHER -> ConnectReturn(st, t)

\* exception e leaves the top frame
Raise(st, t, e) ==
    LET F == Top(st, t)
    IN  CASE F.fn = "_command" /\ F.role = "user" ->
                AfterCommand(Pop(st, t), t, Raised(e, F.att))
          [] F.fn = "_command" /\ F.role = "bkcmd" /\ e.type = "CommandTimeout" ->
                StartCommand(Pop(st, t), t, StrGetSleep, NoneAtt, "getsleep")
          [] F.fn = "_command" ->
                ConnectRaise(Pop(st, t), t, e)
          [] OTHER -> ConnectRaise(st, t, e)


\* a mutant of ProcessResponse: a data frame does not end a get or a sendme,
\* the loop reads on until a status or an empty frame
ProcessResponseKeepReading(st, t, response) ==
    LET F == Top(st, t)
        res_len == Len(response)
        type_ == response[1]
        raw == Tail(response)
        seen1(s, G) == IF F.role = "user" /\ s.tasks[t].first = None
                       THEN [s EXCEPT !.tasks[t].first = G.data] ELSE s
        finish1(s, G) ==
            Return(WithTop(seen1(s, G), t, G), t, IF G.data # None THEN G.data ELSE G.result)
        again1(s, G) == WithTop(seen1(s, G), t, [G EXCEPT !.pc = "read", !.conn = s.connection])
        after1(s, G) == again1(s, G)
        finish(G) == finish1(st, G)
        after(G) == after1(st, G)
    IN  CASE res_len = 0 ->
                finish([F EXCEPT !.result = IF F.result = None THEN PyBool(TRUE) ELSE @])
          [] res_len = 1 ->
                IF response[1] = 1
                THEN finish([F EXCEPT !.result = PyBool(TRUE)])
                ELSE Raise(st, t, CommandFailed(F.cmd, response[1]))
          [] res_len > 1 /\ type_ = RT_PAGE -> after([F EXCEPT !.data = PyInt(raw[1])])
          [] res_len > 1 /\ type_ = RT_STRING ->
                IF IsAscii(raw)
                THEN after([F EXCEPT !.data = PyStr(raw)])
                ELSE Raise(st, t, Exc("UnicodeDecodeError", F.cmd, "ascii"))
          [] res_len > 1 /\ type_ = RT_NUMBER ->
                IF Len(raw) = 4
                THEN after([F EXCEPT !.data = PyInt(unpack_i(raw))])
                ELSE Raise(st, t, Exc("struct.error", F.cmd, "unpack requires a buffer of 4 bytes"))
          [] OTHER -> after1([st EXCEPT !.counters.unknown = @ + 1], F)

\* _command, lines 334-363: one reply frame
ProcessResponse(st, t, response) ==
    LET F == Top(st, t)
        res_len == Len(response)
        type_ == response[1]
        raw == Tail(response)
        seen1(s, G) == IF F.role = "user" /\ s.tasks[t].first = None
                       THEN [s EXCEPT !.tasks[t].first = G.data] ELSE s
        finish1(s, G) ==
            Return(WithTop(seen1(s, G), t, G), t, IF G.data # None THEN G.data ELSE G.result)
        again1(s, G) == WithTop(seen1(s, G), t, [G EXCEPT !.pc = "read", !.conn = s.connection])
        after1(s, G) == IF FirstWord(F.cmd) \in {StrGet, StrSendme} THEN finish1(s, G) ELSE again1(s, G)
        finish(G) == finish1(st, G)
        after(G) == after1(st, G)
    IN  CASE res_len = 0 ->
                finish([F EXCEPT !.result = IF F.result = None THEN PyBool(TRUE) ELSE @])
          [] res_len = 1 ->
                IF response[1] = 1
                THEN finish([F EXCEPT !.result = PyBool(TRUE)])
                ELSE Raise(st, t, CommandFailed(F.cmd, response[1]))
          [] res_len > 1 /\ type_ = RT_PAGE -> after([F EXCEPT !.data = PyInt(raw[1])])
          [] res_len > 1 /\ type_ = RT_STRING ->
                IF IsAscii(raw)
                THEN after([F EXCEPT !.data = PyStr(raw)])
                ELSE Raise(st, t, Exc("UnicodeDecodeError", F.cmd, "ascii"))
          [] res_len > 1 /\ type_ = RT_NUMBER ->
                IF Len(raw) = 4
                THEN after([F EXCEPT !.data = PyInt(unpack_i(raw))])
                ELSE Raise(st, t, Exc("struct.error", F.cmd, "unpack requires a buffer of 4 bytes"))
          [] OTHER -> after1([st EXCEPT !.counters.unknown = @ + 1], F)

\* _attempt_connect_messages: write connect message i and read its reply
SendConnectMessage(st, t, i) ==
    LET data == IF i = 1 THEN StrConnect ELSE <<255, 255>> \o StrConnect
    IN  WithTop(Write(st, t, data), t,
                [Top(st, t) EXCEPT !.pc = "msg_read", !.msg = i, !.conn = st.connection])

\* a mutant of ConnectAtBaudFailed: the loop over the candidates catches
\* nothing
ConnectAtBaudFailedAbort(st, t, e) == Raise(st, t, e)

\* _connect_at_baud raised e inside the for loop of
\* _try_connect_on_different_baudrates
ConnectAtBaudFailed(st, t, e) ==
    IF IsConnectionFailed(e)
    THEN TryNextBaud(WithTop(st, t, [Top(st, t) EXCEPT !.bauds = Tail(@)]), t)
    ELSE Raise(st, t, e)

\* no valid reply to connect message F.msg: the next message, or NoValidReply
NextConnectMessage(st, t) ==
    IF Top(st, t).msg = 1
    THEN SendConnectMessage(st, t, 2)
    ELSE ConnectAtBaudFailed(st, t, Exc("NoValidReply", <<>>, "No valid reply received"))

\* a mutant of ConnectReply: the fields of the reply are not kept
ConnectReplyNoInfo(st, t, result) ==
    LET F == Top(st, t)
        data == Split(Drop(result, 7))
    IN  IF Take(result, 6) # StrComok
        THEN NextConnectMessage(st, t)
        ELSE IF ~IsAscii(Drop(result, 7))
        THEN Raise(st, t, Exc("UnicodeDecodeError", <<>>, "ascii"))
        ELSE IF Len(data) < 7
        THEN Raise(st, t, Exc("IndexError", <<>>, "list index out of range"))
        ELSE StartCommand([st EXCEPT !.baud_rate = Head(F.bauds)], t, StrBkcmd3, 1, "bkcmd")

\* _attempt_connect_messages, lines 218-229: a reply to a connect message
ConnectReply(st, t, result) ==
    LET F == Top(st, t)
        data == Split(Drop(result, 7))
    IN  IF Take(result, 6) # StrComok
        THEN NextConnectMessage(st, t)
        ELSE IF ~IsAscii(Drop(result, 7))
        THEN Raise(st, t, Exc("UnicodeDecodeError", <<>>, "ascii"))
        ELSE IF Len(data) < 7
        THEN Raise(st, t, Exc("IndexError", <<>>, "list index out of range"))
        ELSE StartCommand(WithTop([st EXCEPT !.device_info = <<data[2], data[3], data[4],
                                                               data[6], data[7]>>,
                                             !.baud_rate = Head(F.bauds),
                                             !.counters.ninfo = @ + 1],
                                  t, [F EXCEPT !.ninfo = @ + 1]),
                          t, StrBkcmd3, 1, "bkcmd")

\* command(): the lock is taken at once when it is free and nobody waits for it
DoCommand(st, t, cmd, att) ==
    IF st.lock = 0 /\ st.waiters = <<>>
    THEN StartCommand(Push([st EXCEPT !.lock = t], t, OpFrame("held", cmd, att)), t, cmd, att, "user")
    ELSE Push([st EXCEPT !.waiters = Append(@, t)], t, OpFrame("acquire", cmd, att))

\* mutant of DoSet: a set is never deferred
DoSetNow(st, t, key, value) ==
    DoCommand(st, t, key \o <<61>> \o out_value(value), NoneAtt)

\* mutant of DoSet: the sleep toggle is deferred like any other key
DoSetDeferAll(st, t, key, value) ==
    IF st.sleeping
    THEN Finish([st EXCEPT !.pending_sets = DictSet(@, key, value)], t, Returned(None))
    ELSE DoCommand(st, t, key \o <<61>> \o out_value(value), NoneAtt)

\* set(): lines 275-294
DoSet(st, t, key, value) ==
    IF value.t \notin {"str", "float", "int"}
    THEN Finish(st, t, Raised(Exc("TypeError", key, "not supported for set"), 0))
    ELSE IF st.sleeping /\ key # StrSleep
    THEN Finish([st EXCEPT !.pending_sets = DictSet(@, key, value)], t, Returned(None))
    ELSE DoCommand(st, t, key \o <<61>> \o out_value(value), NoneAtt)

\* mutant of DoSleep: the flag is not looked at
DoSleepAlways(st, t) == DoSet(st, t, StrSleep, PyInt(1))

\* sleep(): lines 403-408, up to the first await
DoSleep(st, t) ==
    IF st.sleeping
    THEN Finish(st, t, Returned(None))
    ELSE DoSet(st, t, StrSleep, PyInt(1))

\* mutant of DoWakeup: the flag is not looked at
DoWakeupAlways(st, t) == DoSet(st, t, StrSleep, PyInt(0))

\* wakeup(): lines 410-415, up to the first await
DoWakeup(st, t) ==
    IF ~st.sleeping
    THEN Finish(st, t, Returned(None))
    ELSE DoSet(st, t, StrSleep, PyInt(0))

\* upload_firmware(file, upload_baud): pc tells which await it is at, att is
\* the upload baud
UploadFrame(pc, baud) == [Frame0 EXCEPT !.fn = "upload_firmware", !.pc = pc, !.att = baud]

StrUsup == <<117, 115, 117, 112>>
StrUssp == <<117, 115, 115, 112>>
StrWhmiWri == <<119, 104, 109, 105, 45, 119, 114, 105, 32>>

\* b"whmi-wri %d,%d,0" % (file_size, upload_baud)
WhmiCommand(file_size, upload_baud) ==
    StrWhmiWri \o str_int(file_size) \o <<44>> \o str_int(upload_baud) \o <<44, 48>>

\* upload_firmware, lines 440-441: the upload command is written, without the
\* lock, and the argument of the logger.info that follows, an f-string that
\* has no conversion left in it applied with % to the baud, raises TypeError;
\* lines 442-484 (close, reopen, the acknowledged chunks) are never reached
UploadWhmi(st, t) ==
    LET F == Top(st, t)
    IN  IF st.connection = 0
        THEN Finish(st, t, Raised(Exc("AssertionError", <<>>, "self._connection"), 0))
        ELSE Finish(Write(st, t, WhmiCommand(Len(st.tasks[t].call.cmd), F.att)), t,
                    Raised(Exc("TypeError", <<>>,
                               "not all arguments converted during string formatting"), 0))

\* set(key, value) awaited by upload_firmware: lines 287-294
UploadSet(st, t, key, value) ==
    IF st.sleeping /\ key # StrSleep
    THEN UploadAfterSet([st EXCEPT !.pending_sets = DictSet(@, key, value)], t, Returned(None))
    ELSE DoCommand(st, t, key \o <<61>> \o out_value(value), NoneAtt)

\* upload_firmware goes on after one of its set() calls: lines 432-438
UploadAfterSet(st, t, outcome) ==
    LET F == Top(st, t)
        failed == outcome.kind = "raise" /\ outcome.exc.type = "CommandFailed"
    IN  CASE F.pc = "sleep0" /\ outcome.kind = "return" ->
                WithTop(st, t, [F EXCEPT !.pc = "settle"])
          [] F.pc = "usup" /\ outcome.kind = "return" ->
                UploadSet(WithTop(st, t, [F EXCEPT !.pc = "ussp"]), t, StrUssp, PyInt(0))
          [] F.pc = "ussp" /\ outcome.kind = "return" -> UploadWhmi(st, t)
          [] F.pc \in {"usup", "ussp"} /\ failed -> UploadWhmi(st, t)
          [] OTHER -> Finish(st, t, outcome)

\* upload_firmware after the sleep of line 433
UploadSettled(st, t) ==
    UploadSet(WithTop(st, t, [Top(st, t) EXCEPT !.pc = "usup"]), t, StrUsup, PyInt(1))

\* upload_firmware, lines 426-432, up to the first await; the upload baud is
\* the one given or else the baud of the client
DoUpload(st, t) ==
    LET c == st.tasks[t].call
        upload_baud == IF c.value # None /\ c.value.v[1] # 0 THEN c.value.v[1] ELSE st.baud_rate
    IN  IF \A i \in DOMAIN BAUD_RATES : BAUD_RATES[i] # upload_baud
        THEN Finish(st, t, Raised(Exc("AssertionError", <<>>, "upload_baud in BAUD_RATES"), 0))
        ELSE UploadSet(Push(st, t, UploadFrame("sleep0", upload_baud)), t, StrSleep, PyInt(0))

\* The first run of a coroutine, up to its first await.
RunCall(st, t) ==
    LET c == st.tasks[t].call
    IN  CASE c.name = "command" -> DoCommand(st, t, c.cmd, c.att)
          [] c.name = "get" -> DoCommand(st, t, <<103, 101, 116, 32>> \o c.key, NoneAtt)
          [] c.name = "set" -> DoSet(st, t, c.key, c.value)
          [] c.name = "sleep" -> DoSleep(st, t)
          [] c.name = "wakeup" -> DoWakeup(st, t)
          [] c.name = "connect" -> Connect(Push(st, t, ConnFrame("open", 0)), t)
          [] c.name = "reconnect" -> Reconnect(st, t)
          [] c.name = "upload_firmware" -> DoUpload(st, t)
          [] c.name = "_on_wakeup" -> Finish(on_wakeup(st, "event"), t, Returned(None))
          [] c.name = "_on_startup" -> DoCommand(st, t, StrBkcmd3, NoneAtt)
          [] c.name = "handler" ->
                Finish([st EXCEPT !.invocations = Append(@, <<c.key[1], c.cmd>>)], t,
                       Returned(None))


----------------------------------------------------------------------------
(* The event loop: one action per resumption of a task, per callback of the *)
(* transport, per move of the display                                       *)

\* serial connections opened in all
MaxConns == 3

Suspended(t, pcs) ==
    /\ t \in DOMAIN tasks
    /\ tasks[t].stk # <<>>
    /\ Top(Cur, t).pc \in pcs

\* The application calls an API coroutine on an idle task.
Call(t, call, maxcalls) ==
    /\ t \in 1..NumUsers
    /\ tasks[t].stk = <<>>
    /\ counters.ncalls < maxcalls
    /\ Install(RunCall([Cur EXCEPT !.tasks[t] = NewTask(call), !.counters.ncalls = @ + 1,
                                   !.counters.caller = t], t))
    /\ UNCHANGED fvars

\* The loop runs, for the first time, the oldest task made by create_task.
Start(t) ==
    /\ startq # <<>>
    /\ t = Head(startq)
    /\ Install(RunCall([Cur EXCEPT !.startq = Tail(@)], t))
    /\ UNCHANGED fvars

\* The loop runs the task of _call_event_handler and the handler of the
\* application does not simply return: it raises (the loop reports the
\* exception of the task, which nobody retrieves), it returns a coroutine that
\* waits for something that never comes, or it is a plain function that does
\* not come back (it sleeps or waits in the thread of the loop).
StartHandler(t, how) ==
    /\ startq # <<>>
    /\ t = Head(startq)
    /\ tasks[t].call.name = "handler"
    /\ LET c == tasks[t].call
           st == [Cur EXCEPT !.startq = Tail(@),
                             !.invocations = Append(@, <<c.key[1], c.cmd>>)]
       IN  CASE how = "raise" ->
                    Install(Finish([st EXCEPT !.counters.lost = @ + 1], t,
                                   Raised(Exc("Exception", <<>>, "handler"), 0)))
             [] how = "await" ->
                    Install(Push(st, t, [Frame0 EXCEPT !.fn = "_call_event_handler",
                                                       !.pc = "handler_await"]))
             [] how = "block" ->
                    Install(Push(st, t, [Frame0 EXCEPT !.fn = "_call_event_handler",
                                                       !.pc = "handler_call"]))
    /\ UNCHANGED fvars

\* The loop runs one callback at a time: while a handler that was called has
\* not come back, no task is resumed and no data_received is called.
LoopHeld ==
    \E t \in DOMAIN tasks : tasks[t].stk # <<>> /\ Top(Cur, t).pc = "handler_call"

\* _command_lock.acquire() returns in the first waiter once the lock is free.
LockAcquired(t) ==
    /\ Suspended(t, {"acquire"})
    /\ lock = 0
    /\ Head(waiters) = t
    /\ LET F == Top(Cur, t)
           st == WithTop([Cur EXCEPT !.lock = t, !.waiters = Tail(@)], t, [F EXCEPT !.pc = "held"])
       IN  Install(StartCommand(st, t, F.cmd, F.att, "user"))
    /\ UNCHANGED fvars

\* _read_packet returns the oldest frame of the queue it waits on.
ReadPacket(t) ==
    /\ Suspended(t, {"read", "drak_read", "msg_read"})
    /\ LET F == Top(Cur, t)
           q == conns[F.conn].proto.queue
           st == [Cur EXCEPT !.conns[F.conn].proto.queue = Tail(@)]
       IN  /\ q # <<>>
           /\ Install(CASE F.pc = "read" -> ProcessResponse(st, t, Head(q))
                        [] F.pc = "drak_read" -> WithTop(st, t, [F EXCEPT !.pc = "baud_sleep"])
                        [] F.pc = "msg_read" -> ConnectReply(st, t, Head(q)))
    /\ UNCHANGED fvars

\* asyncio.wait_for gives up on an empty queue: in _command (lines 326-332), or
\* while connecting (lines 191-192 and 230-231).  With late = FALSE the display
\* is never late: a read times out only when no reply is on its way.
ReadTimeout(t, late, maxtimeouts) ==
    /\ Suspended(t, {"read", "drak_read", "msg_read"})
    /\ LET F == Top(Cur, t)
       IN  /\ conns[F.conn].proto.queue = <<>>
           /\ late \/ (conns[F.conn].outbox = <<>> /\ conns[F.conn].inflight = <<>>)
           /\ F.pc = "read" => counters.ntimeouts < maxtimeouts
           /\ Install(CASE F.pc = "read" ->
                             WithTop([Cur EXCEPT !.counters.ntimeouts = @ + 1,
                                                 !.tasks[t].nto =
                                                     IF F.role = "user" THEN @ + 1 ELSE @],
                                     t, [F EXCEPT !.last = "CommandTimeout", !.pc = "io_sleep"])
                        [] F.pc = "drak_read" -> WithTop(Cur, t, [F EXCEPT !.pc = "baud_sleep"])
                        [] F.pc = "msg_read" -> NextConnectMessage(Cur, t))
    /\ UNCHANGED fvars

\* An asyncio.sleep ends: after a timeout (line 331), after a failed reconnect
\* (line 312), between the reset bytes and the connect messages (line 194),
\* after the sleep=0 of upload_firmware (line 433).
TimerFires(t) ==
    /\ Suspended(t, {"io_sleep", "reconn_sleep", "baud_sleep", "settle"})
    /\ Install(IF Top(Cur, t).pc = "baud_sleep"
               THEN SendConnectMessage(Cur, t, 1)
               ELSE IF Top(Cur, t).pc = "settle"
               THEN UploadSettled(Cur, t)
               ELSE CommandLoop(Cur, t))
    /\ UNCHANGED fvars

\* connection_lost was called on the closed protocol: reconnect() goes on to
\* connect().
Closed(t) ==
    /\ Suspended(t, {"close"})
    /\ Install(Connect(Cur, t))
    /\ UNCHANGED fvars

\* create_serial_connection ends: the port is absent (errno 2), the baud is
\* rejected (another OSError), or a protocol is made and connection_made
\* called; then lines 182-190.
Opened(t) ==
    /\ Suspended(t, {"open"})
    /\ LET F == Top(Cur, t)
           baud == Head(F.bauds)
           c == Len(conns) + 1
           new == [baud |-> baud, open |-> TRUE, proto |-> NewProtocol,
                   outbox |-> <<>>, inflight |-> <<>>]
           tried == [Cur EXCEPT !.tasks[t].opens = Append(@, baud)]
           st == [tried EXCEPT !.conns = Append(@, new), !.connection = c]
       IN  IF dev.absent
           THEN Install(ConnectAtBaudFailed(tried, t,
                    Exc("ConnectionFailed", <<>>, "Failed to open serial connection")))
           ELSE IF baud \in dev.rejected
           THEN Install(ConnectAtBaudFailed(tried, t,
                    Exc("UnsupportedBaudRate", <<>>, "Baud not supported")))
           ELSE /\ Len(conns) < MaxConns
                /\ Install(WithTop(Write(st, t, StrDrak), t,
                                   [F EXCEPT !.pc = "drak_read", !.conn = c]))
    /\ UNCHANGED fvars

\* The display takes the oldest write it has not looked at, reacts, and the
\* first chunk of its reply reaches data_received, unless earlier chunks are
\* still on the line: the line keeps the order of what is sent.
DeviceAnswer(c, choice) ==
    /\ c \in 1..Len(conns)
    /\ conns[c].outbox # <<>>
    /\ LET r == DeviceReaction(dev, Head(conns[c].outbox), choice)
           sleepq == Head(conns[c].outbox) = StrGetSleep \o EOL
           st == [Cur EXCEPT !.dev = r.dev, !.conns[c].outbox = Tail(@),
                             !.counters.fails =
                                 IF choice.k = "fail" THEN Append(@, choice.code) ELSE @,
                             !.counters.replies =
                                 IF r.value # None /\ ~sleepq THEN Append(@, r.value) ELSE @,
                             !.counters.reported =
                                 IF r.value # None /\ sleepq THEN r.value ELSE @]
       IN  IF r.chunks = <<>>
           THEN Install(st)
           ELSE IF conns[c].inflight # <<>>
           THEN Install([st EXCEPT !.conns[c].inflight = @ \o r.chunks])
           ELSE Install(Deliver([st EXCEPT !.conns[c].inflight = Tail(r.chunks)],
                                c, Head(r.chunks)))
    /\ UNCHANGED fvars

\* A later chunk of a reply reaches data_received.
DeviceSends(c) ==
    /\ c \in 1..Len(conns)
    /\ conns[c].inflight # <<>>
    /\ Install(Deliver([Cur EXCEPT !.conns[c].inflight = Tail(@)], c, Head(conns[c].inflight)))
    /\ UNCHANGED fvars

\* The display sends an event frame on its own.
DeviceEvent(c, frame, maxevents) ==
    /\ c \in 1..Len(conns)
    /\ conns[c].open
    /\ conns[c].baud = dev.baud
    /\ counters.nevents < maxevents
    /\ LET s == IF frame[1] = AUTO_SLEEP THEN 1 ELSE IF frame[1] = AUTO_WAKE THEN 0 ELSE dev.sleep
           st == [Cur EXCEPT !.dev.sleep = s, !.counters.nevents = @ + 1,
                             !.counters.arrived = Append(@, frame[1]),
                             !.counters.ntouch = IF frame[1] = TOUCH THEN @ + 1 ELSE @]
       IN  IF conns[c].inflight # <<>>
           THEN Install([st EXCEPT !.conns[c].inflight = Append(@, frame)])
           ELSE Install(Deliver(st, c, frame))
    /\ UNCHANGED fvars

----------------------------------------------------------------------------
(* The client in use: Nextion(url, baud_rate, reconnect_attempts=N) *)

Devices(bauds) ==
    {[baud |-> b, sleep |-> s, absent |-> FALSE, rejected |-> {}, store |-> <<>>] :
        b \in bauds, s \in {0, 1}}

ClientInit(bauds, attempts, devices) ==
    /\ fstream = <<>>
    /\ fconsumed = <<>>
    /\ fproto = NewProtocol
    /\ fevents = <<>>
    /\ connection = 0
    /\ baud_rate \in bauds
    /\ device_info = <<>>
    /\ sleeping = TRUE
    /\ pending_sets = <<>>
    /\ reconnect_attempts \in attempts
    /\ lock = 0
    /\ waiters = <<>>
    /\ tasks = [t \in 1..NumUsers |-> NewTask(Call0(""))]
    /\ startq = <<>>
    /\ conns = <<>>
    /\ dev \in devices
    /\ written = <<>>
    /\ invocations = <<>>
    /\ counters = [ncalls |-> 0, caller |-> 0, ntimeouts |-> 0, nevents |-> 0, ntouch |-> 0,
                   nspawn |-> 0, fails |-> <<>>, replies |-> <<>>, reported |-> None,
                   ninfo |-> 0, flushed |-> 0, unknown |-> 0, lost |-> 0,
                   arrived |-> <<>>]

KeyX == <<120>>
KeyT == <<116>>
StrPage2 == <<112, 97, 103, 101, 32, 50>>

CallGet(key) == [Call0("get") EXCEPT !.key = key]

CallSet(key, value) == [Call0("set") EXCEPT !.key = key, !.value = value]

CallCommand(cmd, att) == [Call0("command") EXCEPT !.cmd = cmd, !.att = att]

----------------------------------------------------------------------------
(* Spec: one coroutine of the application uses the power-state API against a *)
(* display that answers every command and may fall asleep or wake on its own *)

\* calls the application makes in all
MaxCalls == 4
\* unsolicited sleep/wake events of the display in all
MaxEvents == 1

PowerCalls ==
    {Call0("connect"), Call0("sleep"), Call0("wakeup"),
     CallSet(KeyX, PyInt(1)), CallSet(KeyX, PyStr(<<72, 105>>)),
     CallSet(KeyT, PyFloat(5, 5)), CallSet(StrSleep, PyInt(1))}

Init == ClientInit({2400}, {1}, Devices({2400}))

Next ==
    \/ \E call \in PowerCalls : Call(1, call, MaxCalls)
    \/ \E t \in DOMAIN tasks : Start(t)
    \/ \E t \in DOMAIN tasks : LockAcquired(t)
    \/ \E t \in DOMAIN tasks : ReadPacket(t)
    \/ \E t \in DOMAIN tasks : TimerFires(t)
    \/ \E t \in DOMAIN tasks : Opened(t)
    \/ \E c \in 1..Len(conns) : DeviceAnswer(c, Answer("ok", 0))
    \/ \E c \in 1..Len(conns) : \E frame \in {AutoSleepFrame, AutoWakeFrame} :
            DeviceEvent(c, frame, MaxEvents)

Spec == Init /\ [][Next]_vars

----------------------------------------------------------------------------
(* Steps of a behaviour, told from the two states of the step *)

\* the application calls an API coroutine in task t
CallStep(t) == counters'.ncalls = counters.ncalls + 1 /\ counters'.caller = t

\* the API coroutine that task t was suspended in ends
ReturnStep(t) == tasks[t].stk # <<>> /\ tasks'[t].stk = <<>>

\* something is written to the serial line
WriteStep == Len(written') = Len(written) + 1

\* the tasks that _on_wakeup made to run the deferred sets, and those of them
\* that wakeup() made
FlushTasks == {t \in DOMAIN tasks : t > NumUsers /\ tasks[t].call.name = "set"}

WakeupTasks == {t \in FlushTasks : tasks[t].call.by = "wakeup"}

\* the value stored under key in a dict, None when absent
DictGet(items, key) ==
    IF \E i \in 1..Len(items) : items[i][1] = key
    THEN (CHOOSE e \in {items[i] : i \in 1..Len(items)} : e[1] = key)[2]
    ELSE None

DictKeys(items) == {items[i][1] : i \in 1..Len(items)}

\* the text of the values the application sets, as the display expects it:
\* 0, 1, "Hi", "5.5"
TextOf(value) ==
    CASE value = PyInt(0) -> <<48>>
      [] value = PyInt(1) -> <<49>>
      [] value = PyStr(<<72, 105>>) -> <<34, 72, 105, 34>>
      [] value = PyFloat(5, 5) -> <<34, 53, 46, 53, 34>>

WireOfSet(key, value) == key \o <<61>> \o TextOf(value) \o EOL

----------------------------------------------------------------------------
(* C7: a set() of a key other than sleep that is called while the sleep flag *)
(* is true writes nothing, returns None and changes nothing but the entry of *)
(* its key in the pending sets, which then holds the value of this, the most *)
(* recent, call; a set() of the key sleep is never deferred: it goes to      *)
(* command(), which writes it in the same step when the lock is free.        *)
C7_DeferredSet ==
    [][\A t \in 1..NumUsers :
         (CallStep(t) /\ tasks'[t].call.name = "set") =>
            LET c == tasks'[t].call
            IN  IF c.key # StrSleep /\ sleeping
                THEN /\ written' = written
                     /\ tasks'[t].out = Returned(None)
                     /\ tasks'[t].stk = <<>>
                     /\ DictGet(pending_sets', c.key) = c.value
                     /\ DictKeys(pending_sets') = DictKeys(pending_sets) \cup {c.key}
                     /\ Len(pending_sets') = Cardinality(DictKeys(pending_sets'))
                     /\ \A k \in DictKeys(pending_sets) \ {c.key} :
                            DictGet(pending_sets', k) = DictGet(pending_sets, k)
                     /\ UNCHANGED <<connection, baud_rate, device_info, sleeping, lock,
                                    waiters, startq, conns, dev, invocations>>
                ELSE IF c.key = StrSleep
                THEN /\ pending_sets' = pending_sets
                     /\ sleeping' = sleeping
                     /\ (lock = 0 /\ waiters = <<>> /\ connection # 0) =>
                            written' = Append(written, [conn |-> connection,
                                                        data |-> WireOfSet(StrSleep, c.value),
                                                        task |-> t])
                     /\ (lock # 0 /\ connection # 0) => t \in {waiters'[i] : i \in 1..Len(waiters')}
                ELSE TRUE]_vars

\* asleep and connected, x was set, then t, then x again: x holds the last
\* value in its old place and nothing but the connect handshake was written
C7_Witness ==
    /\ sleeping
    /\ connection # 0
    /\ tasks[1].call = CallSet(KeyX, PyStr(<<72, 105>>))
    /\ tasks[1].out = Returned(None)
    /\ pending_sets = << <<KeyX, PyStr(<<72, 105>>)>>, <<KeyT, PyFloat(5, 5)>> >>
    /\ counters.ncalls = 4
    /\ \A i \in 1..Len(written) : Take(written[i].data, 1) \notin {KeyX, KeyT}

----------------------------------------------------------------------------
(* C8: wakeup() and the deferred sets *)

\* wakeup() returns to the application having woken the display
WakeupReturns(t) ==
    /\ tasks[t].call.name = "wakeup"
    /\ ReturnStep(t)
    /\ tasks'[t].out.kind = "return"

\* When wakeup() returns it has written sleep=0, once and as its last write,
\* and has made one task set(key, value) per entry of the pending sets, which
\* hold one entry per key; the pending sets are then empty and the flag false.
WakeupFlushes(t) ==
    WakeupReturns(t) =>
        LET new == (DOMAIN tasks') \ (DOMAIN tasks)
            mine == SelectSeq(written, LAMBDA w : w.task = t)
        IN  /\ tasks[t].nw = 1
            /\ written' = written
            /\ mine # <<>>
            /\ mine[Len(mine)].data = WireOfSet(StrSleep, PyInt(0))
            /\ Len(pending_sets) = Cardinality(DictKeys(pending_sets))
            /\ Cardinality(new) = Len(pending_sets)
            /\ \A i \in 1..Len(pending_sets) :
                   \E u \in new :
                       tasks'[u].call = [CallSet(pending_sets[i][1], pending_sets[i][2])
                                            EXCEPT !.by = "wakeup"]
            /\ pending_sets' = <<>>
            /\ sleeping' = FALSE

\* What a task made for a deferred set writes is key=<text of its value>, and
\* it is the task's first write.
FlushWrites(u) ==
    (WriteStep /\ written'[Len(written')].task = u) =>
        /\ written'[Len(written')].data = WireOfSet(tasks[u].call.key, tasks[u].call.value)
        /\ tasks[u].nw = 0

\* the task of a deferred set ends having written its command once
FlushedOnce(u) == u \notin DOMAIN tasks' => tasks[u].nw = 1

\* the task of a deferred set finds the flag true again, defers its value once
\* more and writes nothing
DeferredAgain(u) ==
    /\ u \notin DOMAIN tasks'
    /\ sleeping
    /\ tasks[u].nw = 0
    /\ written' = written
    /\ DictGet(pending_sets', tasks[u].call.key) = tasks[u].call.value

\* C8 as stated: a successful wakeup() writes sleep=0 first and then, through
\* the tasks it makes, exactly one command key=<formatted last value> for each
\* key of the pending sets, and none for an overwritten value.
C8_WakeupWritesEachKeyOnce ==
    [][/\ \A t \in 1..NumUsers : WakeupFlushes(t)
       /\ \A u \in WakeupTasks : FlushWrites(u) /\ FlushedOnce(u)]_vars

\* C8 amended: the same, except that a key whose task runs after the sleep
\* flag has become true again is not written but deferred again.
C8_WakeupWritesEachKeyOnceUnlessAsleepAgain ==
    [][/\ \A t \in 1..NumUsers : WakeupFlushes(t)
       /\ \A u \in WakeupTasks : FlushWrites(u) /\ (FlushedOnce(u) \/ DeferredAgain(u))]_vars

\* the writes that follow the connect handshake
AfterHandshake(n) == [i \in 1..(Len(written) - n) |-> written[i + n].data]

\* asleep, x was set to 1, then to "Hi", then wakeup() was called: what was
\* written after the four writes of connect() is sleep=0 and x="Hi"
C8_Witness ==
    /\ tasks[1].call.name = "wakeup"
    /\ tasks[1].out = Returned(None)
    /\ counters.ncalls = 4
    /\ counters.nevents = 0
    /\ FlushTasks = {}
    /\ startq = <<>>
    /\ Len(written) = 6
    /\ AfterHandshake(4) = << <<115, 108, 101, 101, 112, 61, 48, 255, 255, 255>>,
                              <<120, 61, 34, 72, 105, 34, 255, 255, 255>> >>

----------------------------------------------------------------------------
(* C9: whenever the sleep flag is false there are no pending sets *)
C9_AwakeHasNoPendingSets == ~sleeping => pending_sets = <<>>

----------------------------------------------------------------------------
(* C10: sleep() writes nothing and returns when the sleep flag is true; when *)
(* the flag is false it writes sleep=1, and when it returns it has written   *)
(* that command once and the flag is true, so that a sleep() called next     *)
(* writes nothing.                                                           *)
C10_SleepOnce ==
    [][\A t \in 1..NumUsers :
         /\ (CallStep(t) /\ tasks'[t].call.name = "sleep" /\ sleeping) =>
                /\ written' = written
                /\ tasks'[t].out = Returned(None)
                /\ tasks'[t].stk = <<>>
                /\ sleeping'
         /\ (CallStep(t) /\ tasks'[t].call.name = "sleep" /\ ~sleeping
                 /\ lock = 0 /\ waiters = <<>>) =>
                written' = Append(written, [conn |-> connection,
                                            data |-> WireOfSet(StrSleep, PyInt(1)),
                                            task |-> t])
         /\ (tasks[t].call.name = "sleep" /\ ReturnStep(t) /\ tasks'[t].out.kind = "return") =>
                /\ tasks[t].nw = 1
                /\ written' = written
                /\ sleeping']_vars

\* connected to an awake display, sleep() was called twice: the second call
\* returned, and sleep=1 is on the line once
C10_Witness ==
    /\ tasks[1].call.name = "sleep"
    /\ tasks[1].out = Returned(None)
    /\ counters.ncalls = 3
    /\ counters.nevents = 0
    /\ sleeping
    /\ Len(written) = 5
    /\ AfterHandshake(4) = << WireOfSet(StrSleep, PyInt(1)) >>
    /\ tasks[1].nw = 0

----------------------------------------------------------------------------
(* SpecEvents: the application connects and reads a variable while the       *)
(* display sends Touch and Startup events of its own                         *)

\* calls the application makes in all
EventCalls == 2
\* event frames the display sends in all
EventFrames == 2

InitEvents == ClientInit({2400}, {1}, Devices({2400}))

NextEvents ==
    \/ \E call \in {Call0("connect"), CallGet(KeyX)} : Call(1, call, EventCalls)
    \/ \E t \in DOMAIN tasks : Start(t)
    \/ \E t \in DOMAIN tasks : LockAcquired(t)
    \/ \E t \in DOMAIN tasks : ReadPacket(t)
    \/ \E t \in DOMAIN tasks : TimerFires(t)
    \/ \E t \in DOMAIN tasks : Opened(t)
    \/ \E c \in 1..Len(conns) : DeviceAnswer(c, Answer("ok", 0))
    \/ \E c \in 1..Len(conns) : \E frame \in {TouchFrame, StartupFrame} :
            DeviceEvent(c, frame, EventFrames)

SpecEvents == InitEvents /\ [][NextEvents]_vars

----------------------------------------------------------------------------
\* the tasks whose _command has written its command and is reading the reply
InFlight ==
    {t \in DOMAIN tasks :
        /\ tasks[t].stk # <<>>
        /\ Top(Cur, t).fn = "_command"
        /\ Top(Cur, t).pc = "read"}

(* C2: at most one command is in flight: at most one _command has written   *)
(* its command and is still reading the reply                                *)
C2_OneCommandInFlight == Cardinality(InFlight) <= 1

----------------------------------------------------------------------------
\* the tasks that are still to call the event handler
HandlerTasks == {t \in DOMAIN tasks : tasks[t].call.name = "handler"}

\* calls of the event handler with a Touch event, made or still to be made
TouchCalls ==
    Len(SelectSeq(invocations, LAMBDA i : i[1] = 101))
        + Cardinality({t \in HandlerTasks : tasks[t].call.key = <<101>>})

(* C3: no frame that starts with an event tag is ever on a reply queue; each *)
(* event frame the display sent has led to one call of the event handler,    *)
(* made or still to be made by its task, and to none more; a Touch frame     *)
(* 65 01 03 01 is handed over as (page 1, component 3, event 1); what is not *)
(* an event frame never reaches the handler.                                 *)
C3_EventsRouted ==
    /\ \A c \in 1..Len(conns) :
           \A i \in 1..Len(conns[c].proto.queue) :
               LET m == conns[c].proto.queue[i]
               IN  m = <<>> \/ m[1] \notin {101, 103, 104, 134, 135, 136, 137}
    /\ Len(invocations) + Cardinality(HandlerTasks) = counters.nevents
    /\ TouchCalls = counters.ntouch
    /\ \A i \in 1..Len(invocations) :
           /\ invocations[i][1] \in {101, 136}
           /\ invocations[i][1] = 101 => invocations[i][2] = <<1, 3, 1>>
    /\ \A t \in HandlerTasks : tasks[t].call.key = <<101>> => tasks[t].call.cmd = <<1, 3, 1>>

\* a Touch frame arrived while the reply to get x was waiting on the queue,
\* and the handler has been called with it, once
C3_Witness ==
    /\ invocations = << <<101, <<1, 3, 1>>>> >>
    /\ counters.ntouch = 1
    /\ HandlerTasks = {}
    /\ \E c \in 1..Len(conns) : conns[c].proto.queue = <<Take(NumberMinus91, 5)>>

----------------------------------------------------------------------------
(* SpecFail: the application connects and sends "page 2" with two attempts;  *)
(* the display answers it, or rejects it with a status byte of the failure   *)
(* table                                                                     *)

\* calls the application makes in all
FailCalls == 2
\* attempts of the command
FailAttempts == 2
\* reads of _command that time out in all
FailTimeouts == 2

InitFail == ClientInit({2400}, {1}, Devices({2400}))

NextFail ==
    \/ \E call \in {Call0("connect"), CallCommand(StrPage2, FailAttempts)} :
            Call(1, call, FailCalls)
    \/ \E t \in DOMAIN tasks : ReadPacket(t)
    \/ \E t \in DOMAIN tasks : ReadTimeout(t, FALSE, FailTimeouts)
    \/ \E t \in DOMAIN tasks : TimerFires(t)
    \/ \E t \in DOMAIN tasks : Closed(t)
    \/ \E t \in DOMAIN tasks : Opened(t)
    \/ \E c \in 1..Len(conns) : DeviceAnswer(c, Answer("ok", 0))
    \/ \E c \in 1..Len(conns) : \E code \in DOMAIN command_failed_codes :
            /\ conns[c].outbox # <<>>
            /\ Head(conns[c].outbox) = StrPage2 \o EOL
            /\ DeviceAnswer(c, Answer("fail", code))

SpecFail == InitFail /\ [][NextFail]_vars

----------------------------------------------------------------------------
(* C4: once the display has answered the command with c FF FF FF, c a status *)
(* byte of the failure table, the command has been written once, the call   *)
(* reconnects at no time, and it ends by raising CommandFailed with the      *)
(* reason of c.                                                              *)
C4_FailureStatusRaises ==
    \A t \in 1..NumUsers :
        (tasks[t].call.name = "command" /\ counters.fails # <<>>) =>
            /\ tasks[t].nw = 1
            /\ tasks[t].nrc = 0
            /\ tasks[t].stk = <<>> =>
                   /\ tasks[t].out.kind = "raise"
                   /\ tasks[t].out.exc =
                          Exc("CommandFailed", StrPage2, command_failed_codes[counters.fails[1]])

----------------------------------------------------------------------------
(* SpecRetry: the application connects and sends "page 2" with a number of   *)
(* attempts; the display answers a write or stays silent                     *)

\* calls the application makes in all
RetryCalls == 2
\* largest attempts argument and largest reconnect_attempts
MaxAttempts == 3
\* reads of _command that time out in all
MaxTimeouts == 2

InitRetry == ClientInit({2400}, 1..MaxAttempts, Devices({2400}))

NextRetry ==
    \/ \E call \in {Call0("connect")} \cup {CallCommand(StrPage2, n) : n \in 1..MaxAttempts} :
            Call(1, call, RetryCalls)
    \/ \E t \in DOMAIN tasks : ReadPacket(t)
    \/ \E t \in DOMAIN tasks : ReadTimeout(t, FALSE, MaxTimeouts)
    \/ \E t \in DOMAIN tasks : TimerFires(t)
    \/ \E t \in DOMAIN tasks : Closed(t)
    \/ \E t \in DOMAIN tasks : Opened(t)
    \/ \E c \in 1..Len(conns) : DeviceAnswer(c, Answer("ok", 0))
    \/ \E c \in 1..Len(conns) : DeviceAnswer(c, Answer("silent", 0))

SpecRetry == InitRetry /\ [][NextRetry]_vars

\* the call of task t has ended
Ended(t) == tasks[t].stk = <<>> /\ tasks[t].out.kind # ""

----------------------------------------------------------------------------
(* C5: command(text, attempts=N) writes text at most N times, and when the   *)
(* read of every attempt it made has timed out, it ends by raising the       *)
(* CommandTimeout of text.                                                   *)
C5_AttemptsBoundWrites ==
    \A t \in 1..NumUsers :
        tasks[t].call.name = "command" =>
            /\ tasks[t].nw <= tasks[t].call.att
            /\ (Ended(t) /\ tasks[t].nw >= 1 /\ tasks[t].nto = tasks[t].nw) =>
                   /\ tasks[t].out.kind = "raise"
                   /\ tasks[t].out.exc = CommandTimeout(tasks[t].call.cmd)

----------------------------------------------------------------------------
(* C6: a CommandTimeout reaches the caller of command() only when the call   *)
(* has no attempt left.                                                      *)
C6_TimeoutOnlyWhenExhausted ==
    \A t \in 1..NumUsers :
        (tasks[t].call.name = "command" /\ Ended(t) /\ tasks[t].out.kind = "raise"
            /\ tasks[t].out.exc.type = "CommandTimeout") =>
            tasks[t].out.att = 0

----------------------------------------------------------------------------
(* C11: wakeup() writes nothing and returns when the sleep flag is false;    *)
(* when the flag is true it writes sleep=0, and when it returns it has       *)
(* written that one command, the flag is false and the pending sets are      *)
(* empty; with nothing pending it makes no task, so nothing else is written. *)
C11_WakeupOnce ==
    [][\A t \in 1..NumUsers :
         /\ (CallStep(t) /\ tasks'[t].call.name = "wakeup" /\ ~sleeping) =>
                /\ written' = written
                /\ tasks'[t].out = Returned(None)
                /\ tasks'[t].stk = <<>>
                /\ UNCHANGED <<sleeping, pending_sets, startq>>
         /\ (CallStep(t) /\ tasks'[t].call.name = "wakeup" /\ sleeping
                 /\ lock = 0 /\ waiters = <<>> /\ connection # 0) =>
                written' = Append(written, [conn |-> connection,
                                            data |-> WireOfSet(StrSleep, PyInt(0)),
                                            task |-> t])
         /\ WakeupReturns(t) =>
                /\ tasks[t].nw = 1
                /\ written' = written
                /\ ~sleeping'
                /\ pending_sets' = <<>>
                /\ pending_sets = <<>> => DOMAIN tasks' = DOMAIN tasks]_vars

\* connected to a sleeping display with nothing pending, wakeup() returned:
\* the one write after the handshake is sleep=0
C11_Witness ==
    /\ tasks[1].call.name = "wakeup"
    /\ tasks[1].out = Returned(None)
    /\ tasks[1].nw = 1
    /\ counters.ncalls = 2
    /\ counters.nspawn = 0
    /\ ~sleeping
    /\ pending_sets = <<>>
    /\ Len(written) = 5
    /\ AfterHandshake(4) = << <<115, 108, 101, 101, 112, 61, 48, 255, 255, 255>> >>

----------------------------------------------------------------------------
(* SpecGet: the application connects and then reads a variable or the page; *)
(* the display answers a get with a number of its choice, in one chunk or   *)
(* two, with a text, or the way old firmware does                           *)

\* calls the application makes in all
GetCalls == 2

\* numbers the variable may hold: the payload has terminator bytes in it
NumberValues == {0 - 91, 1, 0 - 1, 0 - 256, 16777215, 65535}

ReplyKinds == {"num", "num4", "num5", "old", "oldempty", "str"}

GetCallsOf == {Call0("connect"), CallGet(KeyX), CallCommand(StrSendme, NoneAtt)}

InitGet == ClientInit({2400}, {1}, Devices({2400}))

NextGet ==
    \/ \E call \in GetCallsOf : Call(1, call, GetCalls)
    \/ \E t \in DOMAIN tasks : ReadPacket(t)
    \/ \E t \in DOMAIN tasks : TimerFires(t)
    \/ \E t \in DOMAIN tasks : Opened(t)
    \/ \E c \in 1..MaxConns, k \in ReplyKinds, n \in NumberValues : DeviceAnswer(c, Answer(k, n))
    \/ \E c \in 1..MaxConns : DeviceSends(c)

SpecGet == InitGet /\ [][NextGet]_vars

\* the values of the data frames the display has sent so far
Replied == {counters.replies[i] : i \in DOMAIN counters.replies}

(* C12: when the reply to get is a Number frame, get returns the signed      *)
(* little-endian 32-bit integer of its four payload bytes, whatever the      *)
(* bytes are: the number the display sent, -91 for 71 A5 FF FF FF FF FF FF   *)
(* and 1 for 71 01 00 00 00 FF FF FF.                                        *)
C12_GetNumber ==
    /\ unpack_i(<<165, 255, 255, 255>>) = 0 - 91
    /\ unpack_i(<<1, 0, 0, 0>>) = 1
    /\ \A t \in 1..NumUsers :
         (/\ Ended(t)
          /\ tasks[t].call.name = "get"
          /\ tasks[t].first # None
          /\ tasks[t].first.t = "int") =>
             /\ tasks[t].out.kind = "return"
             /\ tasks[t].out.value \in Replied
             /\ Len(counters.replies) = 1 => tasks[t].out.value = counters.replies[1]

\* get returned -91 after the display sent 71 A5 FF FF | FF FF FF FF in two chunks
C12_Witness ==
    /\ tasks[1].call.name = "get"
    /\ tasks[1].out = Returned(PyInt(0 - 91))
    /\ counters.replies = <<PyInt(0 - 91)>>
    /\ written[Len(written)].data = <<103, 101, 116, 32, 120, 255, 255, 255>>
    /\ fconsumed = <<>>

\* get(key) or command("sendme")
IsQuery(call) == call.name = "get" \/ (call.name = "command" /\ call.cmd = StrSendme)

(* C13: a get or a sendme ends in the step in which its first data frame    *)
(* (Page, String or Number) is decoded, without reading a further frame; it  *)
(* returns the value of that frame, which status or empty frames that follow *)
(* in the reply do not change, and it wrote the command exactly once.        *)
C13_FirstDataFrame ==
    \A t \in 1..NumUsers :
        (IsQuery(tasks[t].call) /\ tasks[t].first # None) =>
            /\ Ended(t)
            /\ tasks[t].out = Returned(tasks[t].first)
            /\ tasks[t].first \in Replied
            /\ tasks[t].nw = 1

\* sendme returned page 2 and the status frame old firmware sends after the
\* Page frame came in later: it lies unread in the queue
C13_Witness ==
    /\ tasks[1].call = CallCommand(StrSendme, NoneAtt)
    /\ tasks[1].out = Returned(PyInt(2))
    /\ tasks[1].nw = 1
    /\ counters.replies = <<PyInt(2)>>
    /\ conns[connection].proto.queue = << <<1>> >>
    /\ conns[connection].inflight = <<>>

----------------------------------------------------------------------------
(* SpecConnect: the application connects, reconnects and uses the display;  *)
(* the display is at the first baud of the ladder or at a later one, is      *)
(* absent, or never answers; it may leave a command unanswered               *)

\* calls the application makes in all
ConnCalls == 2

\* reads of a command that may time out in all
ConnTimeouts == 1

Ladder == {BAUD_RATES[i] : i \in DOMAIN BAUD_RATES}

\* a display at 2400 baud; one at 4800 baud behind a port that rejects 2400;
\* no port at all; a mute line whose port takes only two of the bauds
ConnDevices ==
    Devices({2400})
        \cup {[d EXCEPT !.rejected = {2400}] : d \in Devices({4800})}
        \cup {[d EXCEPT !.absent = TRUE] : d \in Devices({2400})}
        \cup {[d EXCEPT !.rejected = Ladder \ {4800, 19200}, !.sleep = 0] : d \in Devices({0})}

ConnCallsOf == {Call0("connect"), Call0("reconnect"), CallGet(KeyX), Call0("sleep")}

InitConnect == ClientInit({0, 9600}, {1, 2}, ConnDevices)

NextConnect ==
    \/ \E call \in ConnCallsOf : Call(1, call, ConnCalls)
    \/ \E t \in DOMAIN tasks : ReadPacket(t)
    \/ \E t \in DOMAIN tasks : ReadTimeout(t, FALSE, ConnTimeouts)
    \/ \E t \in DOMAIN tasks : TimerFires(t)
    \/ \E t \in DOMAIN tasks : Closed(t)
    \/ \E t \in DOMAIN tasks : Opened(t)
    \/ \E c \in 1..MaxConns : DeviceAnswer(c, Answer("ok", 0))
    \/ \E c \in 1..MaxConns : DeviceAnswer(c, Answer("old", 0))
    \/ \E c \in 1..MaxConns : DeviceAnswer(c, Answer("silent", 0))
    \/ \E c \in 1..MaxConns : DeviceSends(c)

SpecConnect == InitConnect /\ [][NextConnect]_vars

\* connect() or reconnect() called by the application is in its loop over
\* the baud candidates
InBaudLoop(t) ==
    /\ tasks[t].call.name \in {"connect", "reconnect"}
    /\ Len(tasks[t].stk) = 1
    /\ tasks[t].stk[1].pc # "close"

(* C14: when the port is absent (OS error 2 on the first open), connect()   *)
(* ends at once with ConnectionFailed 'Failed to open serial connection'    *)
(* and opens no further baud candidate.                                      *)
C14_AbsentAborts ==
    \A t \in 1..NumUsers :
        (dev.absent /\ tasks[t].opens # <<>>) =>
            /\ Len(tasks[t].opens) = 1
            /\ Ended(t)
            /\ tasks[t].out.kind = "raise"
            /\ tasks[t].out.exc =
                   Exc("ConnectionFailed", <<>>, "Failed to open serial connection")

ComokInfo == << <<97>>, <<109>>, <<102>>, <<115>>, <<122>> >>

\* task t reads an accepted reply to a connect message in this step
ReadsComok(t) ==
    /\ Suspended(t, {"msg_read"})
    /\ conns[Top(Cur, t).conn].proto.queue # <<>>
    /\ Take(Head(conns[Top(Cur, t).conn].proto.queue), 6) = StrComok
    /\ tasks'[t] # tasks[t]

\* connect() or reconnect() called by the application returns in this step
ConnectReturns(t) ==
    /\ ReturnStep(t)
    /\ tasks[t].call.name \in {"connect", "reconnect"}
    /\ tasks'[t].out.kind = "return"

(* C16: device_info is written only in the step in which a connect() reads *)
(* an accepted 'comok ' reply, from its fields 1, 2, 3, 5, 6; each connect() *)
(* writes it at most once and has written it once when it goes on past the   *)
(* handshake and when it returns; it is non-null whenever connect() has      *)
(* returned successfully, and no other step changes it.                      *)
C16_DeviceInfoOnce ==
    /\ [](\A t \in DOMAIN tasks : \A i \in 1..Len(tasks[t].stk) :
            tasks[t].stk[i].fn = "connect" =>
                /\ tasks[t].stk[i].ninfo <= 1
                /\ i < Len(tasks[t].stk) =>
                       (tasks[t].stk[i].ninfo = 1 /\ device_info = ComokInfo))
    /\ [](\A t \in 1..NumUsers :
            (/\ Ended(t)
             /\ tasks[t].call.name \in {"connect", "reconnect"}
             /\ tasks[t].out.kind = "return") => device_info = ComokInfo)
    /\ [][/\ (device_info' # device_info \/ counters.ninfo' # counters.ninfo) =>
                /\ \E t \in DOMAIN tasks : ReadsComok(t)
                /\ counters.ninfo' = counters.ninfo + 1
                /\ device_info' = ComokInfo
           /\ \A t \in 1..NumUsers :
                ConnectReturns(t) =>
                    (tasks[t].stk[1].ninfo = 1 /\ device_info' = device_info)]_vars

\* connect(), then get x timed out, reconnected and returned: two handshakes
\* wrote device_info, both inside a connect(); the get left it as it was
C16_Witness ==
    /\ tasks[1].call.name = "get"
    /\ tasks[1].out.kind = "return"
    /\ tasks[1].nrc = 1
    /\ counters.ninfo = 2
    /\ device_info = ComokInfo

(* C17: when connect() returns, the sleep flag is what the display reported *)
(* last to 'get sleep' (false for 0, true otherwise), whether the display    *)
(* sends the Number frame alone or a status frame after it; and when the     *)
(* read of 'bkcmd=3' has timed out, connect() goes on to write 'get sleep'.  *)
C17_SleepFlagAfterConnect ==
    [][\A t \in 1..NumUsers :
         /\ ConnectReturns(t) =>
                /\ counters.reported # None
                /\ sleeping' = (counters.reported.v[1] # 0)
         /\ (/\ Suspended(t, {"io_sleep"})
             /\ Top(Cur, t).role = "bkcmd"
             /\ tasks'[t] # tasks[t]) =>
                /\ tasks'[t].stk # <<>>
                /\ tasks'[t].stk[Len(tasks'[t].stk)].role = "getsleep"
                /\ tasks'[t].stk[Len(tasks'[t].stk)].pc = "read"
                /\ written' = Append(written, [conn |-> connection,
                                                data |-> StrGetSleep \o EOL, task |-> t])]_vars

\* 'bkcmd=3' got no answer, the old-firmware display reported sleep 1 and its
\* status frame is still on the line: connect() has returned, the flag is true
C17_Witness ==
    /\ tasks[1].call.name = "connect"
    /\ tasks[1].out = Returned(None)
    /\ counters.ntimeouts = 1
    /\ Len(conns) = 1
    /\ conns[1].inflight = <<StatusOk>>
    /\ counters.reported = PyInt(1)
    /\ sleeping

----------------------------------------------------------------------------
(* SpecEcho: the application connects to an awake display that keeps what   *)
(* is assigned to a variable, assigns values to x and reads x back           *)

\* calls the application makes in all
EchoCalls == 3

\* values given to set(): integers, texts (the empty one too), a float
EchoValues == {PyInt(7), PyInt(0 - 91), PyStr(<<72, 105>>), PyStr(<<>>), PyFloat(5, 5)}

EchoCallsOf == {Call0("connect"), CallGet(KeyX)} \cup {CallSet(KeyX, v) : v \in EchoValues}

InitEcho == ClientInit({2400}, {1}, {d \in Devices({2400}) : d.sleep = 0})

NextEcho ==
    \/ \E call \in EchoCallsOf : Call(1, call, EchoCalls)
    \/ \E t \in DOMAIN tasks : ReadPacket(t)
    \/ \E t \in DOMAIN tasks : TimerFires(t)
    \/ \E t \in DOMAIN tasks : Opened(t)
    \/ \E c \in 1..MaxConns : DeviceAnswer(c, Answer("ok", 0))

SpecEcho == InitEcho /\ [][NextEcho]_vars

\* the writes that assign to x, oldest first
SetsOfX == SelectSeq(written, LAMBDA w : Take(w.data, 2) = <<120, 61>>)

\* a value given to set(x, .), the bytes written for it, and what get(x)
\* is to return for it
RoundTrip(value, wire, back) == [value |-> value, wire |-> wire, back |-> back]

RoundTrips ==
    {RoundTrip(PyInt(7), <<120, 61, 55>> \o EOL, PyInt(7)),
     RoundTrip(PyInt(0 - 91), <<120, 61, 45, 57, 49>> \o EOL, PyInt(0 - 91)),
     RoundTrip(PyStr(<<72, 105>>), <<120, 61, 34, 72, 105, 34>> \o EOL, PyStr(<<72, 105>>)),
     RoundTrip(PyFloat(5, 5), <<120, 61, 34, 53, 46, 53, 34>> \o EOL, PyStr(<<53, 46, 53>>)),
     RoundTrip(PyStr(<<>>), <<120, 61, 34, 34>> \o EOL, PyStr(<<>>))}

(* C18: against a display that keeps and echoes values, get(x) after a      *)
(* set(x, v) written while awake returns v: the same integer for an          *)
(* integer, the text that was sent between the quotes for a text or a float. *)
C18_RoundTrip ==
    \A r \in RoundTrips :
        (/\ Ended(1)
         /\ tasks[1].call = CallGet(KeyX)
         /\ SetsOfX # <<>>
         /\ SetsOfX[Len(SetsOfX)].data = r.wire) =>
            tasks[1].out = Returned(r.back)

----------------------------------------------------------------------------
\* the bytes received so far start with a fixed-length tag, the slice of the
\* declared length is there and does not end with the terminator, and a
\* terminator has come
StartsWithJunk(s) ==
    /\ Len(s) >= 3
    /\ s[1] \in DOMAIN PACKET_LENGTH_MAP
    /\ Len(s) >= PACKET_LENGTH_MAP[s[1]]
    /\ ~EndsWith(Take(s, PACKET_LENGTH_MAP[s[1]]), EOL)
    /\ Find(s, EOL) # 0

(* C19: when the bytes received start with a fixed-length tag whose slice   *)
(* of the declared length does not end with FF FF FF, everything up to and   *)
(* including the first terminator is discarded: the reply queue, the frames  *)
(* given to the event callback and the buffer are those of the remainder     *)
(* alone; 71 FF FF FF 71 A5 FF FF FF FF FF FF delivers only 71 A5 FF FF FF.  *)
C19_JunkDiscarded ==
    LET rest == Drop(fconsumed, Find(fconsumed, EOL) + 2)
        clean == data_received(NewProtocol, rest)
    IN  /\ StartsWithJunk(fconsumed) =>
              /\ fproto.queue = clean.proto.queue
              /\ fevents = clean.events
              /\ fproto.buffer = clean.proto.buffer
        /\ fconsumed = <<113, 255, 255, 255, 113, 165, 255, 255, 255, 255, 255, 255>> =>
              /\ fproto.queue = << <<113, 165, 255, 255, 255>> >>
              /\ fevents = <<>>
              /\ fproto.buffer = <<>>

\* the junk and the Number frame of the test have come in, in chunks
C19_Witness ==
    /\ fconsumed = JunkNumber \o NumberMinus91
    /\ StartsWithJunk(fconsumed)
    /\ fstream = <<>>
    /\ fproto.queue = <<Take(NumberMinus91, 5)>>
    /\ fevents = <<>>

----------------------------------------------------------------------------
\* the handshake on connection c was accepted (bkcmd=3 is written after it)
\* before task t wrote data on c
HandshakeBefore(c, t, data) ==
    \E k, m \in DOMAIN written :
        /\ k < m
        /\ written[k].conn = c
        /\ written[k].data = StrBkcmd3 \o EOL
        /\ written[m] = [conn |-> c, data |-> data \o EOL, task |-> t]

(* C20: the writes one call makes of its command go to connections opened   *)
(* one after the other: before a later write the connection of the earlier   *)
(* one, on which the read timed out, was closed, and a new one was opened    *)
(* and its handshake accepted; the command is never written twice on one     *)
(* connection.                                                               *)
C20_RewriteAfterReconnect ==
    \A t \in 1..NumUsers :
        LET wc == tasks[t].wc
        IN  /\ Len(wc) <= 1 + tasks[t].nto
            /\ \A i, j \in DOMAIN wc :
                  i < j =>
                      /\ wc[i] < wc[j]
                      /\ ~conns[wc[i]].open
                      /\ HandshakeBefore(wc[j], t, tasks[t].call.cmd)

\* page 2 with two attempts: written on connection 1, timed out, written on
\* connection 2 after one reconnect, answered
C20_Witness ==
    /\ tasks[1].call = CallCommand(StrPage2, 2)
    /\ tasks[1].out = Returned(PyBool(TRUE))
    /\ tasks[1].wc = <<1, 2>>
    /\ tasks[1].nto = 1
    /\ tasks[1].nrc = 1
    /\ ~conns[1].open
    /\ conns[2].open

----------------------------------------------------------------------------
(* SpecReconnect: a command is retried against a display that may stay       *)
(* silent, to the handshake too, behind a port that takes 2400 baud only: a  *)
(* reconnect of the retry can fail with 'No baud rate suited'                *)

\* calls the application makes in all
ReconnCalls == 2

\* attempts given to command()
ReconnAttempts == 3

\* reads of a command that may time out in all
ReconnTimeouts == 2

InitReconnect ==
    ClientInit({2400}, {1},
               {[d EXCEPT !.rejected = Ladder \ {2400}] : d \in Devices({2400})})

NextReconnect ==
    \/ \E call \in {Call0("connect")} \cup {CallCommand(StrPage2, n) : n \in 1..ReconnAttempts} :
            Call(1, call, ReconnCalls)
    \/ \E t \in DOMAIN tasks : ReadPacket(t)
    \/ \E t \in DOMAIN tasks : ReadTimeout(t, FALSE, ReconnTimeouts)
    \/ \E t \in DOMAIN tasks : TimerFires(t)
    \/ \E t \in DOMAIN tasks : Closed(t)
    \/ \E t \in DOMAIN tasks : Opened(t)
    \/ \E c \in 1..Len(conns) : DeviceAnswer(c, Answer("ok", 0))
    \/ \E c \in 1..Len(conns) : DeviceAnswer(c, Answer("silent", 0))

SpecReconnect == InitReconnect /\ [][NextReconnect]_vars

\* the attempts a call of command() started with
AttemptsGiven(t) ==
    IF tasks[t].call.att = NoneAtt THEN reconnect_attempts ELSE tasks[t].call.att

(* C21: when a reconnect of the retry has failed with ConnectionFailed and  *)
(* the command waits to go round the loop again, no attempt was spent on it: *)
(* the writes made and the attempts left still add up to the attempts given. *)
C21_FailedReconnectIsFree ==
    \A t \in 1..NumUsers :
        (/\ tasks[t].call.name = "command"
         /\ Suspended(t, {"reconn_sleep"})
         /\ Top(Cur, t).role = "user") =>
            tasks[t].nw + Top(Cur, t).att = AttemptsGiven(t)

----------------------------------------------------------------------------
(* SpecReply: the application connects and sends commands; the display      *)
(* answers a command with its status, with a data frame before the status,  *)
(* or with a frame of an unknown tag before the answer proper                *)

\* calls the application makes in all
ReplyCalls == 2

ReplyChoices ==
    {Answer("ok", 0), Answer("unk", 0), Answer("numok", 0), Answer("numok", 1),
     Answer("numempty", 0), Answer("strok", 0), Answer("strok", 1)}

ReplyCallsOf ==
    {Call0("connect"), CallGet(KeyX), CallCommand(StrSendme, NoneAtt),
     CallCommand(StrPage2, NoneAtt)}

InitReply == ClientInit({2400}, {1}, Devices({2400}))

NextReply ==
    \/ \E call \in ReplyCallsOf : Call(1, call, ReplyCalls)
    \/ \E t \in DOMAIN tasks : ReadPacket(t)
    \/ \E t \in DOMAIN tasks : TimerFires(t)
    \/ \E t \in DOMAIN tasks : Opened(t)
    \/ \E c \in 1..MaxConns, choice \in ReplyChoices : DeviceAnswer(c, choice)
    \/ \E c \in 1..MaxConns : DeviceSends(c)

SpecReply == InitReply /\ [][NextReply]_vars

\* the step takes a frame of an unknown tag from the queue task t reads
ReadsUnknown(t) ==
    /\ Suspended(t, {"read"})
    /\ LET q == conns[Top(Cur, t).conn].proto.queue
       IN  /\ q # <<>>
           /\ Len(Head(q)) > 1
           /\ Head(q)[1] \notin {RT_PAGE, RT_STRING, RT_NUMBER}
           /\ conns'[Top(Cur, t).conn].proto.queue = Tail(q)

(* C22: a reply frame of more than one byte whose tag is none of 0x66, 0x70, *)
(* 0x71 is ignored: the step that reads it leaves the command reading, with  *)
(* its result and its data as they were, for get and sendme too.             *)
C22_UnknownFrameIgnored ==
    [][\A t \in 1..NumUsers : ReadsUnknown(t) => tasks'[t] = tasks[t]]_vars

\* the step takes frame f from the queue the command of task t reads
ReadsFrame(t, f) ==
    /\ Suspended(t, {"read"})
    /\ Top(Cur, t).role = "user"
    /\ LET q == conns[Top(Cur, t).conn].proto.queue
       IN  /\ q # <<>>
           /\ Head(q) = f
           /\ conns'[Top(Cur, t).conn].proto.queue = Tail(q)

\* a Page, String or Number frame as the display forms it; the String frame
\* of the empty text is the tag alone
IsDataFrame(f) ==
    /\ f # <<>>
    /\ \/ f[1] = RT_PAGE /\ Len(f) = 2
       \/ f[1] = RT_STRING /\ IsAscii(Tail(f))
       \/ f[1] = RT_NUMBER /\ Len(f) = 5

\* the value a data frame stands for
DataOf(f) ==
    CASE f[1] = RT_PAGE -> PyInt(f[2])
      [] f[1] = RT_STRING -> PyStr(Tail(f))
      [] OTHER -> PyInt(unpack_i(Tail(f)))

\* frames in the queue a reading command may take next
QueuedFrames == UNION {{conns[c].proto.queue[i] : i \in DOMAIN conns[c].proto.queue} : c \in DOMAIN conns}

(* C23: a command other than get/sendme that reads a data frame keeps its   *)
(* value and reads on; when it then reads an empty frame or the status 01   *)
(* it returns the value of the last data frame read, 0 and the empty text    *)
(* included, and True when it has read no data frame.                        *)
C23_DataThenTerminal ==
    [][\A t \in 1..NumUsers : \A f \in QueuedFrames :
          (ReadsFrame(t, f) /\ ~IsQuery(tasks[t].call)) =>
              IF IsDataFrame(f)
              THEN /\ tasks'[t].stk # <<>>
                   /\ tasks'[t].stk[Len(tasks'[t].stk)] =
                          [Top(Cur, t) EXCEPT !.data = DataOf(f)]
              ELSE (f = <<>> \/ f = <<1>>) =>
                      /\ tasks'[t].stk = <<>>
                      /\ tasks'[t].out =
                            Returned(IF Top(Cur, t).data # None THEN Top(Cur, t).data
                                     ELSE PyBool(TRUE))]_vars

\* the step is the start of an attempt of a command of task t: the command
\* is written and the task goes on to read its reply
WritesCommand(t) ==
    /\ Len(written') = Len(written) + 1
    /\ written'[Len(written')].task = t
    /\ tasks'[t].stk # <<>>
    /\ tasks'[t].stk[Len(tasks'[t].stk)].pc = "read"

(* C24: in the step that writes a command, the frames that were in the      *)
(* reply queue of the connection are removed: the queue the command then    *)
(* reads its reply from is empty when the write is made, so no frame that    *)
(* was there before the write takes part in the result.                      *)
C24_FlushBeforeWrite ==
    [][\A t \in DOMAIN tasks :
          WritesCommand(t) =>
              /\ conns'[written'[Len(written')].conn].proto.queue = <<>>
              /\ tasks'[t].stk[Len(tasks'[t].stk)].conn = written'[Len(written')].conn
              /\ tasks'[t].stk[Len(tasks'[t].stk)].data = None
              /\ tasks'[t].stk[Len(tasks'[t].stk)].result = None]_vars

\* the status frame after the Number frame of 'get sleep' was still in the
\* queue when get('x') started: it was thrown away and get returned the
\* number the display sent for x
C24_Witness ==
    /\ tasks[1].call.name = "get"
    /\ tasks[1].out = Returned(PyInt(0 - 91))
    /\ tasks[1].nw = 1
    /\ counters.flushed = 1
    /\ counters.replies = <<PyInt(0 - 91)>>

\* the position of baud b on the ladder, 0 when it is not on it
LadderIndex(b) ==
    IF \E i \in DOMAIN BAUD_RATES : BAUD_RATES[i] = b
    THEN CHOOSE i \in DOMAIN BAUD_RATES : BAUD_RATES[i] = b
    ELSE 0

\* the baud of the last connect that got through the handshake: bkcmd=3 is
\* written on its connection; 0 when there was none
LastConnectedBaud ==
    LET ok == {i \in DOMAIN written : written[i].data = StrBkcmd3 \o EOL}
    IN  IF ok = {} THEN 0
        ELSE conns[written[CHOOSE i \in ok : \A j \in ok : j <= i].conn].baud

\* bauds a client may know: none, bauds of the ladder, one that is not on it
KnownBauds == {0, 1200} \cup Ladder

(* C25: the candidate list has no duplicates; it is the ladder in ladder     *)
(* order, with the known baud (if any) taken out of its place and put first; *)
(* the first transport a connect or reconnect opens is at the baud of the    *)
(* last connect that succeeded, else at the baud given to the constructor,   *)
(* else at the first baud of the ladder.                                     *)
C25_KnownBaudFirst ==
    /\ \A known \in KnownBauds :
          LET list == get_priority_ordered_baud_rates(known)
              rest == IF known = 0 THEN list ELSE Tail(list)
          IN  /\ \A i, j \in DOMAIN list : list[i] = list[j] => i = j
              /\ known # 0 => list[1] = known
              /\ {rest[i] : i \in DOMAIN rest} = Ladder \ {known}
              /\ \A i, j \in DOMAIN rest :
                    i < j => LadderIndex(rest[i]) < LadderIndex(rest[j])
    /\ \A t \in 1..NumUsers :
          (InBaudLoop(t) /\ tasks[t].opens # <<>>) =>
              /\ \A i, j \in DOMAIN tasks[t].opens :
                    tasks[t].opens[i] = tasks[t].opens[j] => i = j
              /\ tasks[t].opens[1] =
                    IF LastConnectedBaud # 0 THEN LastConnectedBaud
                    ELSE IF baud_rate # 0 THEN baud_rate
                    ELSE BAUD_RATES[1]

\* the client was made for 9600 baud and found the display at 2400; the
\* reconnect that follows opens the port at 2400 first
C25_Witness ==
    /\ tasks[1].call.name = "reconnect"
    /\ tasks[1].opens = <<2400>>
    /\ Len(conns) = 3
    /\ conns[1].baud = 9600 /\ conns[2].baud = 2400 /\ conns[3].baud = 2400
    /\ baud_rate = 2400
----------------------------------------------------------------------------
(* SpecWake: the application connects and sets variables while the display  *)
(* goes to sleep and wakes up of its own and says so with AutoSleep and     *)
(* AutoWake events; the event loop runs every task it was given.            *)

\* calls the application makes in all
WakeCalls == 3
\* AutoSleep and AutoWake events the display sends in all
WakeEvents == 2

WakeCallsOf == {Call0("connect"), CallSet(KeyX, PyInt(1)), CallSet(KeyT, PyFloat(5, 5))}

InitWake == ClientInit({2400}, {1}, Devices({2400}))

NextWake ==
    \/ \E call \in WakeCallsOf : Call(1, call, WakeCalls)
    \/ \E t \in DOMAIN tasks : Start(t)
    \/ \E t \in DOMAIN tasks : LockAcquired(t)
    \/ \E t \in DOMAIN tasks : ReadPacket(t)
    \/ \E t \in DOMAIN tasks : TimerFires(t)
    \/ \E t \in DOMAIN tasks : Opened(t)
    \/ \E c \in 1..Len(conns) : DeviceAnswer(c, Answer("ok", 0))
    \/ \E c \in 1..Len(conns) : \E frame \in {AutoSleepFrame, AutoWakeFrame} :
            DeviceEvent(c, frame, WakeEvents)

\* a task made with create_task gets its turn: Start is enabled exactly when
\* startq is not empty, so this is weak fairness of Start, written out
SpecWake ==
    /\ InitWake
    /\ [][NextWake]_vars
    /\ ([]<>(startq = <<>>) \/ []<><<\E t \in DOMAIN tasks : Start(t)>>_vars)

\* the tasks made in the step
NewTasks == (DOMAIN tasks') \ (DOMAIN tasks)

\* an _on_wakeup task made for an AutoWake event has not run yet
WakePending == \E u \in DOMAIN tasks : tasks[u].call.name = "_on_wakeup"

\* the step runs the _on_wakeup task u
WakeRuns(u) == tasks[u].call.name = "_on_wakeup" /\ u \notin DOMAIN tasks'

(* C26: the step that processes an AutoSleep event leaves the sleep flag     *)
(* true. The step that processes an AutoWake event makes an _on_wakeup task  *)
(* and writes nothing; that task gets to run, and when it runs it makes one  *)
(* task set(key, value) per pending set, empties the pending sets and clears *)
(* the flag, and writes nothing: no task made for an event writes sleep=0.   *)
C26_AutoSleepAutoWake ==
    /\ [][/\ \A u \in NewTasks :
              /\ (tasks'[u].call = Handler(AUTO_SLEEP, <<>>)) => sleeping'
              /\ (tasks'[u].call = Handler(AUTO_WAKE, <<>>)) =>
                     /\ u - 1 \in NewTasks
                     /\ tasks'[u - 1].call = [Call0("_on_wakeup") EXCEPT !.by = "event"]
                     /\ written' = written
                     /\ pending_sets' = pending_sets
          /\ \A u \in DOMAIN tasks :
              WakeRuns(u) =>
                  /\ written' = written
                  /\ pending_sets' = <<>>
                  /\ sleeping' = FALSE
                  /\ Cardinality(NewTasks) = Len(pending_sets)
                  /\ \A i \in 1..Len(pending_sets) :
                         \E v \in NewTasks :
                             tasks'[v].call = [CallSet(pending_sets[i][1], pending_sets[i][2])
                                                  EXCEPT !.by = "event"]
          /\ (WriteStep /\ written'[Len(written')].task > NumUsers) =>
                  written'[Len(written')].data # WireOfSet(StrSleep, PyInt(0))]_vars
    /\ (WakePending ~> ~WakePending)

\* asleep, t was set and deferred; the display woke up of its own and the
\* set was written by the task made for it, and no sleep=0
C26_Witness ==
    /\ counters.nevents = 1
    /\ counters.ncalls = 2
    /\ dev.sleep = 0
    /\ ~sleeping
    /\ pending_sets = <<>>
    /\ DOMAIN tasks = 1..NumUsers
    /\ Len(written) = 5
    /\ AfterHandshake(4) = << WireOfSet(KeyT, PyFloat(5, 5)) >>
    /\ written[5].task > NumUsers
----------------------------------------------------------------------------
(* SpecHandler: the application connects and reads a variable while the     *)
(* display sends Touch events; the handler of the application returns,      *)
(* raises, waits for ever in a coroutine, or does not come back.            *)

\* calls the application makes in all
HandlerCalls == 2
\* Touch events the display sends in all
HandlerEvents == 2

InitHandler == ClientInit({2400}, {1}, Devices({2400}))

NextHandler ==
    \/ \E call \in {Call0("connect"), CallGet(KeyX)} : ~LoopHeld /\ Call(1, call, HandlerCalls)
    \/ \E t \in DOMAIN tasks : ~LoopHeld /\ Start(t)
    \/ \E t \in DOMAIN tasks : ~LoopHeld /\ StartHandler(t, "raise")
    \/ \E t \in DOMAIN tasks : ~LoopHeld /\ StartHandler(t, "await")
    \/ \E t \in DOMAIN tasks : ~LoopHeld /\ StartHandler(t, "block")
    \/ \E t \in DOMAIN tasks : ~LoopHeld /\ ReadPacket(t)
    \/ \E t \in DOMAIN tasks : ~LoopHeld /\ TimerFires(t)
    \/ \E t \in DOMAIN tasks : ~LoopHeld /\ Opened(t)
    \/ \E c \in 1..Len(conns) : ~LoopHeld /\ DeviceAnswer(c, Answer("ok", 0))
    \/ \E c \in 1..Len(conns) : ~LoopHeld /\ DeviceEvent(c, TouchFrame, HandlerEvents)

SpecHandler == InitHandler /\ [][NextHandler]_vars

\* the handler was called with an event and has not returned
HandlerStuck ==
    \E t \in DOMAIN tasks :
        /\ tasks[t].stk # <<>>
        /\ Top(Cur, t).pc \in {"handler_call", "handler_await"}

\* a call of the application is waiting: for a reply, a timer, the port
Waiting(t) == tasks[t].stk # <<>>

(* C27: whatever the event handler did with an event (return, raise, wait   *)
(* or not come back), frame processing goes on: while a call of the          *)
(* application waits for its reply, or a task made for a later event waits   *)
(* for its turn, the loop is free to hand over the frames that arrive and to *)
(* resume the call with its reply.                                           *)
C27_HandlerIsolated ==
    ((\E t \in 1..NumUsers : Waiting(t)) \/ startq # <<>>) => ~LoopHeld

\* the events the handler has been called with so far, in the order of the
\* calls
Started == [i \in 1..Len(invocations) |-> invocations[i][1]]

(* C28: the event handler is called with the events in the order in which   *)
(* their frames came in on the line: the events it has been called with so   *)
(* far are the first events that arrived, in that order.                     *)
C28_HandlersInArrivalOrder ==
    /\ Len(Started) <= Len(counters.arrived)
    /\ Started = Take(counters.arrived, Len(Started))

\* a Touch event and then a Startup event arrived, and the handler was called
\* with the Touch event first
C28_Witness ==
    /\ counters.arrived = <<TOUCH, STARTUP>>
    /\ invocations = << <<TOUCH, <<1, 3, 1>>>>, <<STARTUP, <<>>>> >>
----------------------------------------------------------------------------
(* SpecUpload: the application connects to a display that is awake or       *)
(* asleep and uploads a firmware file of three bytes, at the baud of the    *)
(* client or at 4800; the display answers the commands or rejects them      *)

\* calls the application makes in all
UploadCalls == 2

\* chunk_size
ChunkSize == 4096

UploadFile == <<1, 2, 3>>

CallUpload(file, baud) == [Call0("upload_firmware") EXCEPT !.cmd = file, !.value = baud]

UploadCallsOf == {Call0("connect"), CallUpload(UploadFile, None), CallUpload(UploadFile, PyInt(4800))}

InitUpload == ClientInit({2400}, {1}, Devices({2400}))

NextUpload ==
    \/ \E call \in UploadCallsOf : Call(1, call, UploadCalls)
    \/ \E t \in DOMAIN tasks : ReadPacket(t)
    \/ \E t \in DOMAIN tasks : TimerFires(t)
    \/ \E t \in DOMAIN tasks : Opened(t)
    \/ \E c \in 1..Len(conns) : DeviceAnswer(c, Answer("ok", 0))
    \/ \E c \in 1..Len(conns) : DeviceAnswer(c, Answer("fail", 26))

SpecUpload == InitUpload /\ [][NextUpload]_vars

\* what task t has written, in order
WritesOf(t) == SelectSeq(written, LAMBDA w : w.task = t)

IsWhmi(w) == Take(w.data, Len(StrWhmiWri)) = StrWhmiWri

\* the upload command of the upload_firmware that task t runs or ran is written
WroteWhmi(t) ==
    /\ tasks[t].call.name = "upload_firmware"
    /\ WritesOf(t) # <<>>
    /\ \E i \in DOMAIN WritesOf(t) : IsWhmi(WritesOf(t)[i])

\* the bytes task t wrote after the upload command, chunk by chunk
ChunksOf(t) ==
    LET m == WritesOf(t)
        k == CHOOSE i \in DOMAIN m : IsWhmi(m[i]) /\ \A j \in DOMAIN m : IsWhmi(m[j]) => j <= i
    IN  [i \in 1..(Len(m) - k) |-> m[k + i].data]

RECURSIVE Flatten(_)
Flatten(chunks) == IF chunks = <<>> THEN <<>> ELSE Head(chunks) \o Flatten(Tail(chunks))

(* C29: an upload_firmware that has written the upload command ends in one  *)
(* of two ways: it returns, and then the chunks it wrote after the command, *)
(* each of at most 4096 bytes and each written after an 05 was read, are    *)
(* the bytes of the file in order; or a reply other than 05 (or none) made  *)
(* it give up with OSError or a timeout, with a part of the file written.   *)
C29_ChunksAfterAck ==
    \A t \in 1..NumUsers :
        (WroteWhmi(t) /\ Ended(t)) =>
            LET file == tasks[t].call.cmd
                sent == Flatten(ChunksOf(t))
            IN  /\ \A i \in DOMAIN ChunksOf(t) : Len(ChunksOf(t)[i]) <= ChunkSize
                /\ \/ tasks[t].out.kind = "return" /\ sent = file
                   \/ /\ tasks[t].out.kind = "raise"
                      /\ tasks[t].out.exc.type \in {"OSError", "TimeoutError"}
                      /\ Len(sent) <= Len(file)
                      /\ sent = Take(file, Len(sent))

\* the writes of upload_firmware before its upload command
BeforeWhmi(t) ==
    LET m == WritesOf(t)
        k == CHOOSE i \in DOMAIN m : IsWhmi(m[i]) /\ \A j \in DOMAIN m : IsWhmi(m[j]) => j <= i
    IN  [i \in 1..tasks[t].nw |-> m[k - tasks[t].nw + i - 1].data]

(* C30: when upload_firmware writes the upload command it has written       *)
(* sleep=0, then usup=1, then ussp=0 (ussp=0 may be missing when usup=1 was  *)
(* rejected), whatever the sleep flag was when it was called; and it gives   *)
(* up with CommandFailed only when sleep=0 was rejected.                     *)
C30_AwakeAndFlagsBeforeWhmi ==
    \A t \in 1..NumUsers :
        /\ WroteWhmi(t) =>
               \/ BeforeWhmi(t) = <<WireOfSet(StrSleep, PyInt(0)), WireOfSet(StrUsup, PyInt(1)),
                                    WireOfSet(StrUssp, PyInt(0))>>
               \/ /\ counters.fails # <<>>
                  /\ BeforeWhmi(t) = <<WireOfSet(StrSleep, PyInt(0)), WireOfSet(StrUsup, PyInt(1))>>
        /\ (/\ tasks[t].call.name = "upload_firmware"
            /\ Ended(t)
            /\ tasks[t].out.exc.type = "CommandFailed") => tasks[t].nw = 1
----------------------------------------------------------------------------
\* the transports the client has opened and not closed
OpenTransports == {c \in 1..Len(conns) : conns[c].open}

(* C31: at most one transport opened by the client is open at any time: a   *)
(* candidate whose handshake failed is closed before the next candidate is  *)
(* opened, and reconnect() closes the old transport before it opens a new   *)
(* one.                                                                      *)
C31_OneTransportOpen == Cardinality(OpenTransports) <= 1

----------------------------------------------------------------------------
\* the calls of connect() that have not ended in the call stack of task t
ConnectDepth(t) ==
    Cardinality({i \in DOMAIN tasks[t].stk : tasks[t].stk[i].fn = "connect"})

(* C32: a command() call with a finite number of attempts ends after        *)
(* finitely many writes when every read delivers a frame or times out: the   *)
(* nesting command -> reconnect -> connect -> command is bounded, the        *)
(* connect() of a reconnect does not reconnect in its turn.                  *)
C32_NestingBounded ==
    \A t \in 1..NumUsers :
        tasks[t].call.name = "command" => ConnectDepth(t) <= 1

----------------------------------------------------------------------------
(* SpecEventFrames: the framer harness fed with event frames, whole, cut   *)
(* short by a terminator, or with a byte too many, in arbitrary chunks      *)

TouchCoordinateFrame == <<TOUCH_COORDINATE, 0, 10, 0, 20, 1>> \o EOL
TouchInSleepFrame == <<TOUCH_IN_SLEEP, 0, 10, 0, 20, 0>> \o EOL

EventPieces ==
    {TouchFrame, TouchCoordinateFrame, TouchInSleepFrame, AutoSleepFrame, StartupFrame,
     EmptyFrame, <<255>>, <<TOUCH, 1>>, <<TOUCH_COORDINATE, 1, 2>>, <<AUTO_SLEEP, 1>>}

RECURSIVE EventStreams(_)
EventStreams(n) ==
    IF n = 0 THEN {<<>>}
    ELSE LET shorter == EventStreams(n - 1)
         IN  shorter \cup {s \o p : s \in shorter, p \in EventPieces}

InitEventFrames ==
    /\ ClientIdle
    /\ fstream \in EventStreams(MaxPieces)
    /\ fconsumed = <<>>
    /\ fproto = NewProtocol
    /\ fevents = <<>>

SpecEventFrames == InitEventFrames /\ [][FramerNext]_vars

\* the number of payload bytes the decoding of an event of this tag takes
\* (_handle_event: "BBB" for Touch, "HHB" for the touch coordinates)
PayloadLength(tag) ==
    CASE tag = TOUCH -> 3
      [] tag \in {TOUCH_COORDINATE, TOUCH_IN_SLEEP} -> 5
      [] OTHER -> 0

(* C33: whatever bytes arrive, in whatever chunks, every frame handed to    *)
(* the event callback has the tag of an event and exactly the payload       *)
(* length of that tag: 3 bytes for Touch, 5 for TouchCoordinate and          *)
(* TouchInSleep, none for AutoSleep, AutoWake, Startup and SdCardUpgrade.    *)
C33_EventPayloadLength ==
    \A i \in DOMAIN fevents :
        /\ fevents[i][1] \in EventType
        /\ Len(fevents[i]) = 1 + PayloadLength(fevents[i][1])

\* an AutoSleep frame with a byte too many was dropped as junk and the
\* TouchCoordinate frame after it was handed over whole
C33_Witness ==
    /\ fconsumed = <<AUTO_SLEEP, 1>> \o EmptyFrame \o TouchCoordinateFrame
    /\ fevents = << <<TOUCH_COORDINATE, 0, 10, 0, 20, 1>> >>
    /\ fproto.queue = <<>>
    /\ fproto.buffer = <<>>

----------------------------------------------------------------------------
(* C34: the result of a command comes from the frames the display sent in   *)
(* answer to it: a get or a sendme that returns, returns the value of the    *)
(* data frame the display sent for it, and never ends on a status or empty   *)
(* frame that is the tail of an earlier reply and came in after the queue    *)
(* was drained.                                                              *)
C34_OwnReplyOnly ==
    \A t \in 1..NumUsers :
        (IsQuery(tasks[t].call) /\ Ended(t) /\ tasks[t].out.kind = "return") =>
            /\ counters.replies # <<>>
            /\ tasks[t].out.value = counters.replies[Len(counters.replies)]

----------------------------------------------------------------------------
\* nothing is left to happen unless the application makes a call or the
\* display sends an event: no call is running, no task waits for its first
\* turn or for the lock, and the line is empty
Quiet ==
    /\ DOMAIN tasks = 1..NumUsers
    /\ \A t \in 1..NumUsers : tasks[t].stk = <<>>
    /\ startq = <<>>
    /\ waiters = <<>>
    /\ \A c \in 1..Len(conns) : conns[c].outbox = <<>> /\ conns[c].inflight = <<>>

(* C35: a set deferred while asleep is written in the end once the sleep     *)
(* flag has become false, whichever way it became false (wakeup(), an        *)
(* AutoWake event, the 'get sleep' of connect or reconnect): when the flag   *)
(* is false and nothing is left to happen, no set is still pending.          *)
C35_DeferredSetsWritten == (Quiet /\ ~sleeping) => pending_sets = <<>>

====
